---- MODULE Spec2Model ----
(***************************************************************************)
(* flow-like-water: Task (retry protocol), TaskGroup (ordered children)    *)
(* and FlowControl (depth-first traversal with a shared branch pointer),   *)
(* modelled from src/src/index.ts.                                         *)
(*                                                                         *)
(* An invocation of an async function is a record of inv; its pc names the *)
(* await it is suspended at or the statement it is about to run.  The      *)
(* user-supplied execute and checkCondition settle with any outcome.       *)
(***************************************************************************)
EXTENDS Naturals, Integers, Sequences, FiniteSets, TLC

\* ------------------------------------------------------------- bounds
\* Largest retries option a task is constructed with.
MaxRetries == 2
\* Largest endTime - startTime of a successful attempt.
MaxElapsed == 1
\* Largest number of on() calls, and of direct emit() calls, of a scenario.
MaxRegistrations == 3
MaxEmits == 2

\* ---------------------------------------------------------- constants
\* waitTime of a task constructed without (or with a falsy) waitTime.
DefaultWaitTime == 1000
\* retries of a task constructed without (or with a falsy) retries.
DefaultRetries == 0

Undefined == "undefined"
ConditionNotMet == "Condition not met"

\* The objects of a scenario: task objects, group objects, invocations.
Tasks == {"t1", "t2", "t3", "t4"}
Groups == {"g1", "g2", "g3"}
Procs == {1, 2}

\* What a rejected execute / checkCondition rejects with.
Errors == {"e1", "e2"}
\* What execute may resolve to besides nothing: a branch target id.
BranchIds == {"B", "C"}
ExecuteResults == {Undefined} \cup BranchIds

VARIABLES
  task,        \* task object -> its fields id, checkCondition, retries, waitTime,
               \* state, time
  children,    \* group object -> its children Map, as the sequence of its values
  taskGroups,  \* FlowControl.taskGroups, as the sequence of its values
  nextTaskId,  \* FlowControl.nextTaskId (Undefined when unset or deleted)
  inv,         \* invocation -> its position and locals
  events,      \* the emit calls of FlowControl, in order
  listeners,   \* EventEmitter.events: event name -> its listeners, in order
  calls,       \* the calls of the listeners, in order
  obs          \* task object -> what a test observes of its calls

vars == <<task, children, taskGroups, nextTaskId, inv, events, listeners,
          calls, obs>>

\* ------------------------------------------------------------- Task
\* An optional numeric option: <<>> when missing, <<n>> when given.
Missing == <<>>
Given(n) == <<n>>

\* `options.x || d`: a missing or falsy (0) option gives the default.
OrDefault(x, d) == IF x = Missing THEN d ELSE IF x[1] = 0 THEN d ELSE x[1]

\* A checkCondition option: some function.
AFunction == "function"

\* options.checkCondition: undefined when the options have none.
CheckConditionOf(options) ==
  IF "checkCondition" \in DOMAIN options THEN options.checkCondition
  ELSE Undefined

\* new Task(options)
NewTask(options) ==
  [id       |-> options.id,
   checkCondition |-> CheckConditionOf(options),
   retries  |-> OrDefault(options.retries, DefaultRetries),
   waitTime |-> OrDefault(options.waitTime, DefaultWaitTime),
   state    |-> "not_started",
   time     |-> 0]

\* `this.checkCondition &&`: the task has a checkCondition to call.
HasCheckCondition(t) == task[t].checkCondition # Undefined

\* What a test observes of one task: jest call counts of execute and
\* checkCondition, the delays awaited, the failed attempts and the error of
\* the last one, how the last attempt ended, how Task.run settled, the
\* waitTime option the test constructed the task with, and the state and time
\* the test read before it called the orchestrator.
NoObs ==
  [execute |-> 0, checkCondition |-> 0, wait |-> 0, failures |-> 0,
   lastError |-> Undefined, lastAttempt |-> "none",
   run |-> "idle", value |-> Undefined, waitTimeOption |-> Missing,
   before |-> [state |-> "not_started", time |-> 0]]

\* An invocation that has not been made.
NoInv ==
  [op |-> "none", pc |-> "idle", roots |-> <<>>, stack |-> <<>>,
   self |-> Undefined, taskId |-> Undefined, t |-> Undefined, currentRetries |-> 0, hasRun |-> FALSE,
   result |-> Undefined, error |-> Undefined,
   outcome |-> "pending", value |-> Undefined]

\* The state a failed attempt leaves (runTask's catch).
FailedStateMutant == "in_progress"
FailedState == "failed"

\* runTask's catch: the task after it.
FailedTaskMutant(tk) == [tk EXCEPT !.state = FailedState, !.time = 0]
FailedTask(tk) == [tk EXCEPT !.state = FailedState]

\* The state runTask sets before it calls execute.
RunningStateMutant == "not_started"
RunningState == "in_progress"

\* The state a successful attempt leaves.
CompletedStateMutant == "in_progress"
CompletedState == "completed"

\* What runTask's catch rethrows for the error e it caught.
RunTaskThrowsMutant(e) == "Task failed"
RunTaskThrows(e) == e

\* A direct call of runTask has no retry protocol around it.
IsRunTask(r) == r.op = "Task.runTask"

\* The condition of Task.run's while loop.
LoopCondition(r, t) == r.currentRetries < task[t].retries \/ ~r.hasRun

\* The promise of invocation r rejects with e: its outermost async function
\* (Task.run or Task.runTask called directly, run, runTask) threw e.
Rejected(r, e) ==
  [NoInv EXCEPT !.op = r.op, !.pc = "done", !.outcome = "rejected", !.value = e]

\* runTask / Task.run returns v: the caller is the test (a direct call) or
\* executeTask.
ReturnedMutant(r, v) ==
  IF r.op \in {"Task.run", "Task.runTask"}
  THEN [NoInv EXCEPT !.op = r.op, !.pc = "done", !.outcome = "resolved"]
  ELSE [r EXCEPT !.pc = "executeTask.resume", !.result = Undefined,
                 !.currentRetries = 0, !.hasRun = FALSE, !.error = Undefined]
Returned(r, v) ==
  IF r.op \in {"Task.run", "Task.runTask"}
  THEN [NoInv EXCEPT !.op = r.op, !.pc = "done", !.outcome = "resolved",
                     !.value = v]
  ELSE [r EXCEPT !.pc = "executeTask.resume", !.result = v,
                 !.currentRetries = 0, !.hasRun = FALSE, !.error = Undefined]

\* Task.run throws e and its promise rejects: that settles a direct call,
\* and else executeTask, which awaits it, resumes in a later job.
TaskRunThrows(r, e) ==
  IF r.op = "Task.run" THEN Rejected(r, e)
  ELSE [r EXCEPT !.pc = "Task.run.rejected", !.error = e]

\* The promise of Task.run is rejected in r.
TaskRunHasRejected(r) == r.outcome = "rejected" \/ r.pc = "Task.run.rejected"

\* executeTask throws e (a listener threw inside emit, or `await task.run()`
\* rejected) and its promise rejects: its caller, which awaits it, resumes in
\* a later job.
ExecuteTaskThrows(r, e) ==
  [r EXCEPT !.pc = "executeTask.rejected", !.error = e, !.t = Undefined,
            !.result = Undefined, !.currentRetries = 0, !.hasRun = FALSE]

\* The runTaskGroup call at the top of the stack throws e (a listener threw
\* inside emit, or the call it awaited rejected) and its promise rejects: its
\* caller, which awaits it, resumes in a later job.
RunTaskGroupThrows(r, e) ==
  [r EXCEPT !.pc = "runTaskGroup.rejected", !.error = e]

\* Task.run's catch block after the delay: rethrow or count the retry.
ThrownError(r, t) == r.error

AfterWaitMutant(r, t) == [r EXCEPT !.pc = "Task.run"]
AfterWait(r, t) ==
  IF r.currentRetries >= task[t].retries
  THEN TaskRunThrows(r, ThrownError(r, t))
  ELSE [r EXCEPT !.hasRun = TRUE, !.currentRetries = @ + 1, !.pc = "Task.run"]

\* Task.run is called on t by invocation p (a fresh invocation for a direct
\* call, or executeTask's `await task.run()`).
EnterTaskRun(r, t) ==
  [r EXCEPT !.t = t, !.pc = "Task.run", !.currentRetries = 0, !.hasRun = FALSE,
            !.result = Undefined, !.error = Undefined]

\* A direct call of task.run() (as the tests and the README do).
CallTaskRun(p, t) ==
  /\ inv[p].op = "none"
  /\ inv' = [inv EXCEPT ![p] = EnterTaskRun([NoInv EXCEPT !.op = "Task.run"], t)]
  /\ obs' = [obs EXCEPT ![t] = [NoObs EXCEPT !.run = "running",
                                 !.waitTimeOption = obs[t].waitTimeOption]]
  /\ UNCHANGED <<task, children, taskGroups, nextTaskId, events, listeners, calls>>

\* A direct call of task.runTask() (public "to facilitate testing"): it sets
\* in_progress and calls execute.
CallRunTask(p, t) ==
  /\ inv[p].op = "none"
  /\ task' = [task EXCEPT ![t].state = RunningState]
  /\ inv' = [inv EXCEPT ![p] = [NoInv EXCEPT !.op = "Task.runTask", !.t = t,
                                             !.pc = "execute"]]
  /\ obs' = [obs EXCEPT ![t].execute = @ + 1]
  /\ UNCHANGED <<children, taskGroups, nextTaskId, events, listeners, calls>>

\* Task.run: the while test; a true test calls runTask, which sets
\* in_progress and calls execute; a false test leaves the loop and the
\* function returns undefined.
TaskRun(p) ==
  LET r == inv[p]
      t == r.t
  IN /\ r.pc = "Task.run"
     /\ IF LoopCondition(r, t)
        THEN /\ task' = [task EXCEPT ![t].state = RunningState]
             /\ obs' = [obs EXCEPT ![t].execute = @ + 1]
             /\ inv' = [inv EXCEPT ![p].pc = "execute"]
        ELSE /\ inv' = [inv EXCEPT ![p] = Returned(r, Undefined)]
             /\ obs' = [obs EXCEPT ![t].run = "resolved", ![t].value = Undefined]
             /\ UNCHANGED task
     /\ UNCHANGED <<children, taskGroups, nextTaskId, events, listeners, calls>>

\* An attempt of t failed with e: runTask's catch sets failed and rethrows.
\* The promise of runTask rejects: that settles a direct call, and else
\* Task.run, which awaits it, resumes in a later job.
AttemptFailed(p, e) ==
  LET r == [inv[p] EXCEPT !.error = RunTaskThrows(e)]
      t == r.t
      next == IF IsRunTask(r) THEN Rejected(r, r.error)
              ELSE [r EXCEPT !.pc = "runTask.rejected"]
  IN /\ task' = [task EXCEPT ![t] = FailedTask(@)]
     /\ inv' = [inv EXCEPT ![p] = next]
     /\ obs' = [obs EXCEPT ![t].failures = @ + 1,
                           ![t].lastError = e,
                           ![t].lastAttempt = "failed"]
     /\ UNCHANGED <<children, taskGroups, nextTaskId, events, listeners, calls>>

\* Task.run resumes after `await this.runTask()` rejected: its catch starts
\* the delay when waitTime > 0, and else goes on to rethrow or count the retry.
RunTaskRejected(p) ==
  LET r == inv[p]
      t == r.t
      delayed == task[t].waitTime > 0
      next == IF delayed THEN [r EXCEPT !.pc = "wait"] ELSE AfterWait(r, t)
      rejects == TaskRunHasRejected(next)
  IN /\ r.pc = "runTask.rejected"
     /\ inv' = [inv EXCEPT ![p] = next]
     /\ obs' = [obs EXCEPT ![t].wait = IF delayed THEN @ + 1 ELSE @,
                           ![t].run = IF rejects THEN "rejected" ELSE @,
                           ![t].value = IF rejects THEN ThrownError(r, t)
                                        ELSE @]
     /\ UNCHANGED <<task, children, taskGroups, nextTaskId, events, listeners, calls>>

\* An attempt of invocation p succeeds after `elapsed` ms: runTask records the
\* time, sets completed and returns v, execute's result. The promise of
\* runTask resolves: that settles a direct call, and else Task.run, which
\* awaits it, resumes in a later job.
AttemptSucceeded(p, v, elapsed) ==
  LET r == inv[p]
      t == r.t
      next == IF IsRunTask(r) THEN Returned(r, v)
              ELSE [r EXCEPT !.pc = "runTask.resolved", !.result = v]
  IN /\ task' = [task EXCEPT ![t].time = elapsed, ![t].state = CompletedState]
     /\ inv' = [inv EXCEPT ![p] = next]
     /\ obs' = [obs EXCEPT ![t].lastAttempt = "succeeded"]
     /\ UNCHANGED <<children, taskGroups, nextTaskId, events, listeners, calls>>

\* Task.run resumes after `await this.runTask()` resolved: it returns the
\* result.
RunTaskResolved(p) ==
  LET r == inv[p]
      t == r.t
  IN /\ r.pc = "runTask.resolved"
     /\ inv' = [inv EXCEPT ![p] = Returned(r, r.result)]
     /\ obs' = [obs EXCEPT ![t].run = "resolved", ![t].value = r.result]
     /\ UNCHANGED <<task, children, taskGroups, nextTaskId, events, listeners, calls>>

\* The times a successful attempt can take.
ElapsedTimes == 0..MaxElapsed

\* execute() resolves with v: runTask calls checkCondition when the task has
\* one, and else the attempt has succeeded.
ExecuteResolves(p, v) ==
  /\ inv[p].pc = "execute"
  /\ IF HasCheckCondition(inv[p].t)
     THEN /\ inv' = [inv EXCEPT ![p].pc = "checkCondition", ![p].result = v]
          /\ obs' = [obs EXCEPT ![inv[p].t].checkCondition = @ + 1]
          /\ UNCHANGED <<task, children, taskGroups, nextTaskId, events,
                         listeners, calls>>
     ELSE \E elapsed \in ElapsedTimes : AttemptSucceeded(p, v, elapsed)

\* execute() rejects with e.
ExecuteRejects(p, e) ==
  /\ inv[p].pc = "execute"
  /\ AttemptFailed(p, e)

\* checkCondition() resolves true: the attempt succeeds after `elapsed` ms
\* with the result execute resolved with.
CheckConditionTrue(p, elapsed) ==
  /\ inv[p].pc = "checkCondition"
  /\ AttemptSucceeded(p, inv[p].result, elapsed)

\* checkCondition() resolves false: "Condition not met" is thrown.
CheckConditionFalse(p) ==
  /\ inv[p].pc = "checkCondition"
  /\ AttemptFailed(p, ConditionNotMet)

\* checkCondition() rejects with e.
CheckConditionRejects(p, e) ==
  /\ inv[p].pc = "checkCondition"
  /\ AttemptFailed(p, e)

\* wait(waitTime) resolves: the rest of Task.run's catch block.
WaitElapsed(p) ==
  LET r == inv[p]
      t == r.t
      next == AfterWait(r, t)
  IN /\ r.pc = "wait"
     /\ inv' = [inv EXCEPT ![p] = next]
     /\ obs' = [obs EXCEPT ![t].run = IF TaskRunHasRejected(next)
                                      THEN "rejected" ELSE @,
                           ![t].value = IF TaskRunHasRejected(next)
                                        THEN ThrownError(r, t) ELSE @]
     /\ UNCHANGED <<task, children, taskGroups, nextTaskId, events, listeners, calls>>

\* The steps of one task's retry protocol, with execute rejecting with an
\* error of errs and a successful attempt taking one of the times of took.
TaskStep(p, errs, took) ==
  \/ TaskRun(p)
  \/ \E v \in ExecuteResults : ExecuteResolves(p, v)
  \/ \E e \in errs : ExecuteRejects(p, e)
  \/ \E elapsed \in took : CheckConditionTrue(p, elapsed)
  \/ CheckConditionFalse(p)
  \/ RunTaskResolved(p)
  \/ RunTaskRejected(p)
  \/ WaitElapsed(p)

\* ------------------------------------------------- TaskGroup, FlowControl
\* instanceof Task
IsTask(node) == node \in Tasks

\* The id a TaskGroup was constructed with: group objects are named by it.
GroupId(g) == g

\* The key of a child in its group's children Map.
NodeId(node) == IF IsTask(node) THEN task[node].id ELSE GroupId(node)

\* Array.from(map.values()): the values in insertion order.
ValuesMutant(m) == [i \in 1..Len(m) |-> m[Len(m) + 1 - i]]
Values(m) == m

\* `if (x)` on a string or undefined.
Truthy(v) == v # Undefined /\ v # ""

\* this.emit(name, arg)
Emit(log, name, arg) == Append(log, [name |-> name, arg |-> arg])

\* --- EventEmitter
\* new EventEmitter(): an empty Map.
NoListeners == <<>>

\* The listener functions of a scenario; the one that throws, and what it
\* throws.
Listeners == {"l1", "l2", "bad"}
Throws(l) == l = "bad"
ListenerError == "listener error"

\* this.events.get(event): undefined (no listener at all) without the key.
ListenersOf(map, event) == IF event \in DOMAIN map THEN map[event] ELSE <<>>

\* on(event, listener): create the array when the key is missing, push.
OnMutant(map, event, listener) ==
  [e \in DOMAIN map \cup {event} |->
     IF e = event THEN <<listener>> \o ListenersOf(map, e) ELSE map[e]]
On(map, event, listener) ==
  [e \in DOMAIN map \cup {event} |->
     IF e = event THEN Append(ListenersOf(map, e), listener) ELSE map[e]]

\* The listeners that emit(event) selects.
SelectedMutant(map, event) ==
  IF DOMAIN map = {} THEN <<>> ELSE map[CHOOSE e \in DOMAIN map : TRUE]
Selected(map, event) == ListenersOf(map, event)

\* How far forEach gets: up to and including the first listener that throws.
InvokedMutant(ls) == ls
Invoked(ls) ==
  IF \E i \in 1..Len(ls) : Throws(ls[i])
  THEN SubSeq(ls, 1, CHOOSE i \in 1..Len(ls) :
                       Throws(ls[i]) /\ \A j \in 1..(i - 1) : ~Throws(ls[j]))
  ELSE ls

\* emit(event, arg) with the listener calls so far: the calls after it, and
\* what it threw (Undefined when it returned).
Deliver(map, log, event, arg) ==
  LET ls == Selected(map, event)
      invoked == Invoked(ls)
  IN [calls |-> log \o [i \in 1..Len(invoked) |->
                          [listener |-> invoked[i], event |-> event,
                           arg |-> arg]],
      thrown |-> IF \E i \in 1..Len(invoked) : Throws(invoked[i])
                 THEN ListenerError ELSE Undefined]

\* The delivery of what a step of FlowControl emitted, if anything.
Emission(old, new) ==
  IF Len(new) > Len(old)
  THEN Deliver(listeners, calls, new[Len(new)].name, new[Len(new)].arg)
  ELSE [calls |-> calls, thrown |-> Undefined]

\* The message of a group's success event.
CompletedMessage(g) == <<"task-group-completed: ", GroupId(g)>>

\* A call of runTaskGroup(g): the snapshot of its children and the position
\* of its for loop.
FrameMutant(g) == [group |-> g, tasks |-> Values(children[g]), i |-> 2]
Frame(g) == [group |-> g, tasks |-> Values(children[g]), i |-> 1]

\* executeTask's skip test.
SkipTestScopedMutant(t) ==
  /\ Truthy(nextTaskId) /\ task[t].id # nextTaskId
  /\ \E g \in Groups :
       /\ \E i \in 1..Len(children[g]) : children[g][i] = t
       /\ \E i \in 1..Len(children[g]) : NodeId(children[g][i]) = nextTaskId
SkipTestMutant(t) == nextTaskId # Undefined /\ task[t].id = nextTaskId
SkipTest(t) == Truthy(nextTaskId) /\ task[t].id # nextTaskId

\* Where executeTask returns to: runTaskGroup's loop, or runTask's.
CallerPc(r) == IF r.op = "runTask" THEN "runTask" ELSE "runTaskGroup"

\* map.get(id) on a children Map.
GetMutant(kids, id) ==
  IF \E t \in Tasks : task[t].id = id
  THEN CHOOSE t \in Tasks : task[t].id = id
  ELSE Undefined
Get(kids, id) ==
  IF \E i \in 1..Len(kids) : NodeId(kids[i]) = id
  THEN kids[CHOOSE i \in 1..Len(kids) : NodeId(kids[i]) = id]
  ELSE Undefined

\* flowControl.run() is called.
CallRun(p) ==
  /\ inv[p].op = "none"
  /\ inv' = [inv EXCEPT ![p] = [NoInv EXCEPT !.op = "run", !.pc = "run",
                                             !.roots = Values(taskGroups)]]
  /\ UNCHANGED <<task, children, taskGroups, nextTaskId, events, listeners, calls, obs>>

\* run's for loop: call runTaskGroup on the next root group, or return.
Run(p) ==
  LET r == inv[p]
  IN /\ r.pc = "run"
     /\ IF r.roots # <<>>
        THEN inv' = [inv EXCEPT ![p].pc = "runTaskGroup",
                                ![p].roots = Tail(r.roots),
                                ![p].stack = <<Frame(Head(r.roots))>>]
        ELSE inv' = [inv EXCEPT ![p] = [NoInv EXCEPT !.op = r.op,
                                                     !.pc = "done",
                                                     !.outcome = "resolved"]]
     /\ UNCHANGED <<task, children, taskGroups, nextTaskId, events, listeners, calls, obs>>

\* executeTask's emissions around the retry protocol.
TaskStarted(log, t) == Emit(log, "taskStarted", <<t>>)

TaskCompleteMutant(log, t) == Emit(log, "taskStarted", <<t>>)
TaskComplete(log, t) == Emit(log, "taskComplete", <<t>>)

\* runTaskGroup's emission after its loop.
GroupCompletedMutant(log, g) == log
GroupCompleted(log, g) == Emit(log, "success", CompletedMessage(g))

\* runTaskGroup's for loop: executeTask on a Task child, a recursive call on a
\* TaskGroup child; after the last child, emit success and return to the
\* caller (an outer runTaskGroup, or run).
RunTaskGroup(p) ==
  LET r == inv[p]
      n == Len(r.stack)
      top == r.stack[n]
  IN /\ r.pc = "runTaskGroup"
     /\ IF top.i <= Len(top.tasks)
        THEN LET child == top.tasks[top.i]
                 advanced == [r.stack EXCEPT ![n].i = @ + 1]
             IN IF IsTask(child)
                THEN /\ inv' = [inv EXCEPT ![p].pc = "executeTask",
                                           ![p].t = child,
                                           ![p].stack = advanced]
                     /\ UNCHANGED <<events, calls>>
                ELSE /\ inv' = [inv EXCEPT ![p].stack =
                                             Append(advanced, Frame(child))]
                     /\ UNCHANGED <<events, calls>>
        ELSE LET emitted == Emission(events, events')
             IN /\ events' = GroupCompleted(events, top.group)
                /\ calls' = emitted.calls
                /\ inv' = IF emitted.thrown # Undefined
                          THEN [inv EXCEPT
                                  ![p] = RunTaskGroupThrows(r, emitted.thrown)]
                          ELSE [inv EXCEPT
                                  ![p].stack = SubSeq(r.stack, 1, n - 1),
                                  ![p].pc = IF n = 1 THEN "run"
                                            ELSE "runTaskGroup"]
     /\ UNCHANGED <<task, children, taskGroups, nextTaskId, listeners, obs>>

\* executeTask(task) up to `await task.run()`: skip, or emit taskStarted and
\* call the retry protocol.
ExecuteTask(p) ==
  LET r == inv[p]
      t == r.t
  IN /\ r.pc = "executeTask"
     /\ IF SkipTest(t)
        THEN /\ task' = [task EXCEPT ![t].state = "skipped"]
             /\ inv' = [inv EXCEPT ![p].pc = CallerPc(r), ![p].t = Undefined]
             /\ UNCHANGED <<events, calls, obs>>
        ELSE LET emitted == Emission(events, events')
             IN /\ events' = TaskStarted(events, t)
                /\ calls' = emitted.calls
                /\ IF emitted.thrown # Undefined
                   THEN /\ inv' = [inv EXCEPT
                                       ![p] = ExecuteTaskThrows(r, emitted.thrown)]
                        /\ UNCHANGED obs
                   ELSE /\ inv' = [inv EXCEPT ![p] = EnterTaskRun(r, t)]
                        /\ obs' = [obs EXCEPT ![t].run = "running"]
                /\ UNCHANGED task
     /\ UNCHANGED <<children, taskGroups, nextTaskId, listeners>>

\* The branch pointer after task.run() returned result: stored when it is an
\* id, else deleted when one was set.
PointerAfterMutant(result, pointer) ==
  IF Truthy(result) THEN result ELSE pointer
PointerAfter(result, pointer) ==
  IF Truthy(result) THEN result
  ELSE IF Truthy(pointer) THEN Undefined
  ELSE pointer

\* executeTask after `await task.run()` resolved: store or clear the branch
\* pointer, emit taskComplete.
ExecuteTaskResume(p) ==
  LET r == inv[p]
  IN /\ r.pc = "executeTask.resume"
     /\ nextTaskId' = PointerAfter(r.result, nextTaskId)
     /\ events' = TaskComplete(events, r.t)
     /\ LET emitted == Emission(events, events')
        IN /\ calls' = emitted.calls
           /\ inv' = IF emitted.thrown # Undefined
                     THEN [inv EXCEPT
                             ![p] = ExecuteTaskThrows(r, emitted.thrown)]
                     ELSE [inv EXCEPT ![p].pc = CallerPc(r), ![p].t = Undefined,
                                      ![p].result = Undefined]
     /\ UNCHANGED <<task, children, taskGroups, listeners, obs>>

\* flowControl.runTask(id) is called.
CallRunTaskById(p, id) ==
  /\ inv[p].op = "none"
  /\ inv' = [inv EXCEPT ![p] = [NoInv EXCEPT !.op = "runTask", !.pc = "runTask",
                                             !.taskId = id,
                                             !.roots = Values(taskGroups)]]
  /\ UNCHANGED <<task, children, taskGroups, nextTaskId, events, listeners, calls, obs>>

\* runTask's for loop: executeTask on the direct child of the next root
\* group that has the id and is a Task, or return.
RunTaskById(p) ==
  LET r == inv[p]
  IN /\ r.pc = "runTask"
     /\ IF r.roots # <<>>
        THEN LET targetTask == Get(children[Head(r.roots)], r.taskId)
             IN IF IsTask(targetTask)
                THEN inv' = [inv EXCEPT ![p].pc = "executeTask",
                                        ![p].t = targetTask,
                                        ![p].roots = Tail(r.roots)]
                ELSE inv' = [inv EXCEPT ![p].roots = Tail(r.roots)]
        ELSE inv' = [inv EXCEPT ![p] = [NoInv EXCEPT !.op = r.op,
                                                     !.taskId = r.taskId,
                                                     !.pc = "done",
                                                     !.outcome = "resolved"]]
     /\ UNCHANGED <<task, children, taskGroups, nextTaskId, events, listeners, calls, obs>>

\* executeTask resumes after `await task.run()` rejected: it has no catch,
\* so it throws the error.
TaskRunRejected(p) ==
  LET r == inv[p]
  IN /\ r.pc = "Task.run.rejected"
     /\ inv' = [inv EXCEPT ![p] = ExecuteTaskThrows(r, r.error)]
     /\ UNCHANGED <<task, children, taskGroups, nextTaskId, events, listeners, calls, obs>>

\* The caller of executeTask resumes after `await this.executeTask(task)`
\* rejected: runTaskGroup throws the error, or runTask(id) does, which
\* settles the invocation.
ExecuteTaskRejected(p) ==
  LET r == inv[p]
  IN /\ r.pc = "executeTask.rejected"
     /\ inv' = [inv EXCEPT ![p] = IF r.op = "runTask" THEN Rejected(r, r.error)
                                  ELSE RunTaskGroupThrows(r, r.error)]
     /\ UNCHANGED <<task, children, taskGroups, nextTaskId, events, listeners, calls, obs>>

\* The caller of the runTaskGroup call at the top of the stack resumes after
\* its await rejected: the enclosing runTaskGroup throws the error, or run
\* does, which settles the invocation.
RunTaskGroupRejected(p) ==
  LET r == inv[p]
      n == Len(r.stack)
  IN /\ r.pc = "runTaskGroup.rejected"
     /\ inv' = [inv EXCEPT
                  ![p] = IF n > 1
                         THEN RunTaskGroupThrows(
                                [r EXCEPT !.stack = SubSeq(r.stack, 1, n - 1)],
                                r.error)
                         ELSE Rejected(r, r.error)]
     /\ UNCHANGED <<task, children, taskGroups, nextTaskId, events, listeners, calls, obs>>

\* The steps of one traversal.
FlowStep(p) ==
  \/ Run(p)
  \/ RunTaskGroup(p)
  \/ ExecuteTask(p)
  \/ ExecuteTaskResume(p)
  \/ TaskRunRejected(p)
  \/ ExecuteTaskRejected(p)
  \/ RunTaskGroupRejected(p)

\* ------------------------------------------- a single task, run directly
RetryOptions == {Missing} \cup {Given(n) : n \in 0..MaxRetries}
WaitOptions == {Missing, Given(0), Given(10), Given(-1)}

DefaultOptions(t) ==
  [id |-> t, retries |-> Missing, waitTime |-> Missing,
   checkCondition |-> AFunction]

\* A task is constructed with a checkCondition or without one.
CheckConditionOptions == {AFunction, Undefined}

InitTask ==
  /\ \E n \in RetryOptions, w \in WaitOptions, c \in CheckConditionOptions :
       /\ task = [t \in Tasks |->
                   IF t = "t1"
                   THEN NewTask([id |-> "A", retries |-> n, waitTime |-> w,
                                 checkCondition |-> c])
                   ELSE NewTask(DefaultOptions(t))]
       /\ obs = [t \in Tasks |->
                  IF t = "t1" THEN [NoObs EXCEPT !.waitTimeOption = w] ELSE NoObs]
  /\ children = [g \in Groups |-> <<>>]
  /\ taskGroups = <<>>
  /\ nextTaskId = Undefined
  /\ inv = [p \in Procs |-> NoInv]
  /\ events = <<>>
  /\ listeners = NoListeners
  /\ calls = <<>>

NextTask ==
  \/ CallTaskRun(1, "t1")
  \/ CallRunTask(1, "t1")
  \/ TaskStep(1, Errors, 0..MaxElapsed)
  \/ \E e \in Errors : CheckConditionRejects(1, e)

SpecTask == InitTask /\ [][NextTask]_vars

\* ------------------------------------------------ a forest, run() once
\* The ids the task objects are constructed with.
TaskIdOf == [t \in Tasks |->
               CASE t = "t1" -> "A" [] t = "t2" -> "X"
                 [] t = "t3" -> "B" [] OTHER -> "C"]

NoChildren == [g \in Groups |-> <<>>]

\* The forests a caller builds with addChild / addGroup before run().
Forests ==
  { \* two root groups of one task each
    [taskGroups |-> <<"g1", "g2">>,
     children |-> [NoChildren EXCEPT !["g1"] = <<"t1">>, !["g2"] = <<"t3">>]],
    \* one group of three sibling tasks
    [taskGroups |-> <<"g1">>,
     children |-> [NoChildren EXCEPT !["g1"] = <<"t1", "t2", "t3">>]],
    \* a nested group between two tasks
    [taskGroups |-> <<"g1">>,
     children |-> [NoChildren EXCEPT !["g1"] = <<"t1", "g2", "t3">>,
                                     !["g2"] = <<"t2">>]],
    \* an empty nested group before a task, and an empty root group
    [taskGroups |-> <<"g1", "g3">>,
     children |-> [NoChildren EXCEPT !["g1"] = <<"g2", "t1">>]] }

\* The tasks of the subtree of node, in depth-first order.
RECURSIVE TasksUnder(_, _)
TasksUnder(kids, node) ==
  IF IsTask(node) THEN <<node>>
  ELSE LET RECURSIVE Over(_)
           Over(s) == IF s = <<>> THEN <<>>
                      ELSE TasksUnder(kids, Head(s)) \o Over(Tail(s))
       IN Over(kids[node])

\* The groups of the subtree of group g, g included.
RECURSIVE GroupsUnder(_, _)
GroupsUnder(kids, node) ==
  IF IsTask(node) THEN {}
  ELSE {node} \cup UNION {GroupsUnder(kids, kids[node][i]) :
                            i \in 1..Len(kids[node])}

\* The tasks of the forest, in depth-first order.
RECURSIVE ForestTasks(_, _)
ForestTasks(kids, roots) ==
  IF roots = <<>> THEN <<>>
  ELSE TasksUnder(kids, Head(roots)) \o ForestTasks(kids, Tail(roots))

Range(s) == {s[i] : i \in 1..Len(s)}

Init ==
  /\ \E f \in Forests :
       /\ children = f.children
       /\ taskGroups = f.taskGroups
       /\ \E n \in [Tasks -> RetryOptions] :
            /\ \A t \in Tasks \ Range(ForestTasks(f.children, f.taskGroups)) :
                 n[t] = Missing
            /\ task = [t \in Tasks |->
                         NewTask([id |-> TaskIdOf[t], retries |-> n[t],
                                  waitTime |-> Missing,
                          checkCondition |-> AFunction])]
  /\ nextTaskId = Undefined
  /\ inv = [p \in Procs |-> NoInv]
  /\ events = <<>>
  /\ listeners = NoListeners
  /\ calls = <<>>
  /\ obs = [t \in Tasks |-> NoObs]

\* One run() on a fresh orchestrator.  execute rejects with one error,
\* checkCondition resolves true or false, and a successful attempt takes
\* MaxElapsed ms; SpecTask has the wider environment for a single task.
Next ==
  \/ CallRun(1)
  \/ FlowStep(1)
  \/ TaskStep(1, {"e1"}, {MaxElapsed})

Spec == Init /\ [][Next]_vars

\* ------------------------------------- two operations, one after the other
\* The forests of two tasks A and B: siblings, B in a nested group, B in a
\* second root group.
OpsForests ==
  { [taskGroups |-> <<"g1">>,
     children |-> [NoChildren EXCEPT !["g1"] = <<"t1", "t3">>]],
    [taskGroups |-> <<"g1">>,
     children |-> [NoChildren EXCEPT !["g1"] = <<"t1", "g2">>,
                                     !["g2"] = <<"t3">>]],
    [taskGroups |-> <<"g1", "g2">>,
     children |-> [NoChildren EXCEPT !["g1"] = <<"t1">>, !["g2"] = <<"t3">>]] }

\* The ids runTask is called with.
OpsIds == {"A", "B"}

InitOps ==
  /\ \E f \in OpsForests :
       /\ children = f.children
       /\ taskGroups = f.taskGroups
       /\ \E n \in [Tasks -> RetryOptions] :
            /\ \A t \in Tasks \ Range(ForestTasks(f.children, f.taskGroups)) :
                 n[t] = Missing
            /\ task = [t \in Tasks |->
                         NewTask([id |-> TaskIdOf[t], retries |-> n[t],
                                  waitTime |-> Missing,
                          checkCondition |-> AFunction])]
  /\ nextTaskId = Undefined
  /\ inv = [p \in Procs |-> NoInv]
  /\ events = <<>>
  /\ listeners = NoListeners
  /\ calls = <<>>
  /\ obs = [t \in Tasks |-> NoObs]

\* Before its second call the test reads every task's state and time and
\* clears its mocks and its event log.
Cleared ==
  /\ obs' = [t \in Tasks |->
               [NoObs EXCEPT !.before = [state |-> task[t].state,
                                         time |-> task[t].time]]]
  /\ events' = <<>>
  /\ calls' = <<>>

\* After the first call has settled, run() is called again on the same
\* orchestrator.
RunAgain(p) ==
  /\ inv[1].pc = "done"
  /\ inv[p].op = "none"
  /\ Cleared
  /\ inv' = [inv EXCEPT ![p] = [NoInv EXCEPT !.op = "run", !.pc = "run",
                                             !.roots = Values(taskGroups)]]
  /\ UNCHANGED <<task, children, taskGroups, nextTaskId, listeners>>

\* After the first call has settled, runTask(id) is called on the same
\* orchestrator.
RunTaskAgain(p, id) ==
  /\ inv[1].pc = "done"
  /\ inv[p].op = "none"
  /\ Cleared
  /\ inv' = [inv EXCEPT ![p] = [NoInv EXCEPT !.op = "runTask", !.pc = "runTask",
                                             !.taskId = id,
                                             !.roots = Values(taskGroups)]]
  /\ UNCHANGED <<task, children, taskGroups, nextTaskId, listeners>>

\* run() or runTask(id) on a fresh orchestrator and then, once it has
\* settled, run() or runTask(id) again.
NextOps ==
  \/ CallRun(1)
  \/ \E id \in OpsIds : CallRunTaskById(1, id)
  \/ RunAgain(2)
  \/ \E id \in OpsIds : RunTaskAgain(2, id)
  \/ \E p \in Procs : FlowStep(p)
  \/ \E p \in Procs : RunTaskById(p)
  \/ \E p \in Procs : TaskStep(p, {"e1"}, {MaxElapsed})

SpecOps == InitOps /\ [][NextOps]_vars

\* ------------------------------------------------ an emitter on its own
\* The number of listeners registered, over all events.
RECURSIVE Registered(_)
Registered(map) ==
  IF DOMAIN map = {} THEN 0
  ELSE LET e == CHOOSE x \in DOMAIN map : TRUE
       IN Len(map[e]) + Registered([x \in DOMAIN map \ {e} |-> map[x]])

\* emitter.on(event, listener) is called.
CallOn(event, listener) ==
  /\ Registered(listeners) < MaxRegistrations
  /\ \A p \in Procs : inv[p].op \in {"none", "emit"}
  /\ listeners' = On(listeners, event, listener)
  /\ UNCHANGED <<task, children, taskGroups, nextTaskId, inv, events, calls, obs>>

\* emitter.emit(event, ...args) is called by invocation p, and returns or
\* throws before anything else happens.
CallEmit(p, event, args) ==
  LET emitted == Deliver(listeners, calls, event, args)
  IN /\ Len(events) < MaxEmits
     /\ events' = Emit(events, event, args)
     /\ calls' = emitted.calls
     /\ inv' = [inv EXCEPT ![p] =
                  [NoInv EXCEPT !.op = "emit", !.pc = "done",
                                !.outcome = IF emitted.thrown # Undefined
                                            THEN "rejected" ELSE "resolved",
                                !.value = emitted.thrown]]
     /\ UNCHANGED <<task, children, taskGroups, nextTaskId, listeners, obs>>

\* The events and arguments of the emitter's tests.
TestEvents == {"event1", "event2"}
TestArgs == {<<"arg1", 42>>, <<"data">>, <<>>}

InitEmitter ==
  /\ task = [t \in Tasks |-> NewTask(DefaultOptions(t))]
  /\ children = NoChildren
  /\ taskGroups = <<>>
  /\ nextTaskId = Undefined
  /\ inv = [p \in Procs |-> NoInv]
  /\ events = <<>>
  /\ listeners = NoListeners
  /\ calls = <<>>
  /\ obs = [t \in Tasks |-> NoObs]

NextEmitter ==
  \/ \E e \in TestEvents, l \in Listeners : CallOn(e, l)
  \/ \E e \in TestEvents, a \in TestArgs : CallEmit(1, e, a)

SpecEmitter == InitEmitter /\ [][NextEmitter]_vars

\* ------------------------------------- listeners on an orchestrator, run()
\* The event names a caller listens on: the three the orchestrator emits and
\* the one of the README's usage.
FlowEvents == {"taskStarted", "taskComplete", "taskCompleted", "success"}
FlowListeners == {"l1", "bad"}

InitListen ==
  /\ children = [NoChildren EXCEPT !["g1"] = <<"t1", "t3">>]
  /\ taskGroups = <<"g1">>
  /\ task = [t \in Tasks |->
               NewTask([id |-> TaskIdOf[t], retries |-> Missing,
                        waitTime |-> Missing,
                          checkCondition |-> AFunction])]
  /\ nextTaskId = Undefined
  /\ inv = [p \in Procs |-> NoInv]
  /\ events = <<>>
  /\ listeners = NoListeners
  /\ calls = <<>>
  /\ obs = [t \in Tasks |-> NoObs]

\* The caller registers listeners, then calls run() once.
NextListen ==
  \/ \E e \in FlowEvents, l \in FlowListeners : CallOn(e, l)
  \/ CallRun(1)
  \/ FlowStep(1)
  \/ TaskStep(1, {"e1"}, {MaxElapsed})

SpecListen == InitListen /\ [][NextListen]_vars

\* The same, with every continuation of run() run: a job queued by a settled
\* promise is always run by the event loop.
SpecListenLive == SpecListen /\ WF_vars(FlowStep(1))

\* --------------------------------- building and changing the forest, run()
\* map.set(node.id, node) on a Map kept as the sequence of its values: a new
\* key goes to the end, an existing key keeps its place and gets the value.
MapSetMutant(m, node) ==
  Append(SelectSeq(m, LAMBDA x : NodeId(x) # NodeId(node)), node)
MapSet(m, node) ==
  IF \E i \in 1..Len(m) : NodeId(m[i]) = NodeId(node)
  THEN [i \in 1..Len(m) |-> IF NodeId(m[i]) = NodeId(node) THEN node ELSE m[i]]
  ELSE Append(m, node)

\* map.delete(id)
MapDeleteMutant(m, id) ==
  IF m = <<>> THEN m ELSE SubSeq(m, 1, Len(m) - 1)
MapDelete(m, id) == SelectSeq(m, LAMBDA x : NodeId(x) # id)

\* A synchronous method call that has returned nothing.
Called(op, self, node, id) ==
  [NoInv EXCEPT !.op = op, !.pc = "done", !.outcome = "resolved",
                !.self = self, !.t = node, !.taskId = id]

\* group.addChild(node)
AddChild(p, g, node) ==
  /\ children' = [children EXCEPT ![g] = MapSet(@, node)]
  /\ inv' = [inv EXCEPT ![p] = Called("addChild", g, node, NodeId(node))]
  /\ UNCHANGED <<task, taskGroups, nextTaskId, events, listeners, calls, obs>>

\* group.removeChild(id)
RemoveChild(p, g, id) ==
  /\ children' = [children EXCEPT ![g] = MapDelete(@, id)]
  /\ inv' = [inv EXCEPT ![p] = Called("removeChild", g, Undefined, id)]
  /\ UNCHANGED <<task, taskGroups, nextTaskId, events, listeners, calls, obs>>

\* flowControl.addGroup(g)
AddGroup(p, g) ==
  /\ taskGroups' = MapSet(taskGroups, g)
  /\ inv' = [inv EXCEPT ![p] = Called("addGroup", Undefined, g, GroupId(g))]
  /\ UNCHANGED <<task, children, nextTaskId, events, listeners, calls, obs>>

\* flowControl.removeGroup(id)
RemoveGroup(p, id) ==
  /\ taskGroups' = MapDelete(taskGroups, id)
  /\ inv' = [inv EXCEPT ![p] = Called("removeGroup", Undefined, Undefined, id)]
  /\ UNCHANGED <<task, children, nextTaskId, events, listeners, calls, obs>>

\* flowControl.getTaskGroup(id)
GetTaskGroup(id) == Get(taskGroups, id)

\* The ids of the task objects: t1 and t3 are two tasks with the same id.
BuildIdOf == [t \in Tasks |->
                CASE t = "t1" -> "A" [] t = "t2" -> "B"
                  [] t = "t3" -> "A" [] OTHER -> "C"]

\* The nodes a caller adds to a group: tasks and the other group to g1 (no
\* group is put under itself), one task to g2.
Addable(g) == IF g = "g1" THEN {"t1", "t2", "t3", "g2"} ELSE {"t4"}
BuildGroups == {"g1", "g2"}
BuildIds == {"A", "B", "C", "g1", "g2"}

\* A new orchestrator, new groups and new tasks.
InitBuild ==
  /\ task = [t \in Tasks |->
               NewTask([id |-> BuildIdOf[t], retries |-> Missing,
                        waitTime |-> Missing,
                          checkCondition |-> AFunction])]
  /\ children = NoChildren
  /\ taskGroups = <<>>
  /\ nextTaskId = Undefined
  /\ inv = [p \in Procs |-> NoInv]
  /\ events = <<>>
  /\ listeners = NoListeners
  /\ calls = <<>>
  /\ obs = [t \in Tasks |-> NoObs]

\* The caller's calls come before run().
Building == inv[1].op = "none"

\* Any adds and removes, then run() once; execute resolves to nothing.
NextBuild ==
  \/ \E g \in BuildGroups, node \in Tasks \cup Groups :
       /\ Building /\ node \in Addable(g)
       /\ AddChild(2, g, node)
  \/ \E g \in BuildGroups, id \in BuildIds : Building /\ RemoveChild(2, g, id)
  \/ \E g \in BuildGroups : Building /\ AddGroup(2, g)
  \/ \E id \in BuildIds : Building /\ RemoveGroup(2, id)
  \/ CallRun(1)
  \/ Run(1)
  \/ RunTaskGroup(1)
  \/ ExecuteTask(1)
  \/ ExecuteTaskResume(1)
  \/ TaskRun(1)
  \/ ExecuteResolves(1, Undefined)
  \/ CheckConditionTrue(1, MaxElapsed)
  \/ RunTaskResolved(1)

SpecBuild == InitBuild /\ [][NextBuild]_vars

\* --------------------------------------- branching over four tasks, run()
\* A, B, X, C as siblings; X and B in a nested group between A and C; A and X
\* in one root group, B and C in the next.  The four tasks are constructed
\* with the same retries option.
BranchForests ==
  { [taskGroups |-> <<"g1">>,
     children |-> [NoChildren EXCEPT !["g1"] = <<"t1", "t3", "t2", "t4">>]],
    [taskGroups |-> <<"g1">>,
     children |-> [NoChildren EXCEPT !["g1"] = <<"t1", "g2", "t4">>,
                                     !["g2"] = <<"t2", "t3">>]],
    [taskGroups |-> <<"g1", "g3">>,
     children |-> [NoChildren EXCEPT !["g1"] = <<"t1", "t2">>,
                                     !["g3"] = <<"t3", "t4">>]] }

\* Without retries, or with one.
BranchRetries == {Missing, Given(1)}

InitBranch ==
  /\ \E f \in BranchForests :
       /\ children = f.children
       /\ taskGroups = f.taskGroups
  /\ \E n \in BranchRetries :
       task = [t \in Tasks |->
                 NewTask([id |-> TaskIdOf[t], retries |-> n,
                          waitTime |-> Missing,
                          checkCondition |-> AFunction])]
  /\ nextTaskId = Undefined
  /\ inv = [p \in Procs |-> NoInv]
  /\ events = <<>>
  /\ listeners = NoListeners
  /\ calls = <<>>
  /\ obs = [t \in Tasks |-> NoObs]

NextBranch ==
  \/ CallRun(1)
  \/ FlowStep(1)
  \/ TaskStep(1, {"e1"}, {MaxElapsed})

SpecBranch == InitBranch /\ [][NextBranch]_vars

\* ------------------------- a branch to an id no later task has, then again
\* What execute resolves to here: nothing, the id of task B, an id that
\* nothing has, the id of a group.
StrayResults == {Undefined, "B", "C", "g2"}

\* B, A and X in a nested group; B and A in one root group, X in the next;
\* X, B, A as siblings.  The tasks are constructed with the same retries.
StrayForests ==
  { [taskGroups |-> <<"g1">>,
     children |-> [NoChildren EXCEPT !["g1"] = <<"t3", "t1", "g2">>,
                                     !["g2"] = <<"t2">>]],
    [taskGroups |-> <<"g1", "g2">>,
     children |-> [NoChildren EXCEPT !["g1"] = <<"t3", "t1">>,
                                     !["g2"] = <<"t2">>]],
    [taskGroups |-> <<"g1">>,
     children |-> [NoChildren EXCEPT !["g1"] = <<"t2", "t3", "t1">>]] }

\* The ids the second call, when it is runTask, is made with.
StrayCallIds == {"A", "X"}

InitStray ==
  /\ \E f \in StrayForests :
       /\ children = f.children
       /\ taskGroups = f.taskGroups
  /\ \E n \in BranchRetries :
       task = [t \in Tasks |->
                 NewTask([id |-> TaskIdOf[t], retries |-> n,
                          waitTime |-> Missing,
                          checkCondition |-> AFunction])]
  /\ nextTaskId = Undefined
  /\ inv = [p \in Procs |-> NoInv]
  /\ events = <<>>
  /\ listeners = NoListeners
  /\ calls = <<>>
  /\ obs = [t \in Tasks |-> NoObs]

\* run() on a fresh orchestrator and then, once it has settled, run() or
\* runTask(id) on the same orchestrator.
NextStray ==
  \/ CallRun(1)
  \/ RunAgain(2)
  \/ \E id \in StrayCallIds : RunTaskAgain(2, id)
  \/ \E p \in Procs : FlowStep(p)
  \/ \E p \in Procs : RunTaskById(p)
  \/ \E p \in Procs : TaskRun(p)
  \/ \E p \in Procs, v \in StrayResults : ExecuteResolves(p, v)
  \/ \E p \in Procs : ExecuteRejects(p, "e1")
  \/ \E p \in Procs : CheckConditionTrue(p, MaxElapsed)
  \/ \E p \in Procs : RunTaskResolved(p)
  \/ \E p \in Procs : RunTaskRejected(p)
  \/ \E p \in Procs : WaitElapsed(p)

SpecStray == InitStray /\ [][NextStray]_vars

\* ---------------------------------------- two run() calls that overlap
\* A, C, B as siblings.
OverlapForest ==
  [taskGroups |-> <<"g1">>,
   children |-> [NoChildren EXCEPT !["g1"] = <<"t1", "t4", "t3">>]]

\* What execute resolves to here: nothing, or the id of C.
OverlapResults == {Undefined, "C"}

InitOverlap ==
  /\ children = OverlapForest.children
  /\ taskGroups = OverlapForest.taskGroups
  /\ \E n \in BranchRetries :
       task = [t \in Tasks |->
                 NewTask([id |-> TaskIdOf[t], retries |-> n,
                          waitTime |-> Missing,
                          checkCondition |-> AFunction])]
  /\ nextTaskId = Undefined
  /\ inv = [p \in Procs |-> NoInv]
  /\ events = <<>>
  /\ listeners = NoListeners
  /\ calls = <<>>
  /\ obs = [t \in Tasks |-> NoObs]

\* The invocation is suspended in an await of the user's execute or
\* checkCondition or of the retry delay. (An invocation whose runTask has
\* settled and whose Task.run has not resumed yet is neither suspended so nor
\* running: its continuation is queued behind the jobs queued before it.)
Suspended(r) == r.pc \in {"execute", "checkCondition", "wait"}

\* The invocation is inside a stretch of code without an await: from the
\* call of run(), from runTaskGroup's call of executeTask or of itself, or
\* from the end of the retry delay, to the call of execute or the return of
\* executeTask.
Running(r) ==
  \/ r.pc \in {"executeTask", "Task.run"}
  \/ r.pc = "runTaskGroup" /\ r.stack[Len(r.stack)].i = 1
  \/ r.pc = "run" /\ Len(r.roots) = Len(taskGroups)

\* The other invocation.
Other(p) == 3 - p

\* A step of invocation p, which the other invocation lets happen only
\* between its own stretches of code.
Interleaved(p, step) == ~Running(inv[Other(p)]) /\ step

\* run() is called, and called again while a task of the first call is
\* suspended.
NextOverlap ==
  \/ CallRun(1)
  \/ Suspended(inv[1]) /\ CallRun(2)
  \/ \E p \in Procs : Interleaved(p, FlowStep(p))
  \/ \E p \in Procs : Interleaved(p, TaskRun(p))
  \/ \E p \in Procs, v \in OverlapResults : Interleaved(p, ExecuteResolves(p, v))
  \/ \E p \in Procs : Interleaved(p, ExecuteRejects(p, "e1"))
  \/ \E p \in Procs : Interleaved(p, CheckConditionTrue(p, MaxElapsed))
  \/ \E p \in Procs : Interleaved(p, RunTaskResolved(p))
  \/ \E p \in Procs : Interleaved(p, RunTaskRejected(p))
  \/ \E p \in Procs : Interleaved(p, WaitElapsed(p))

SpecOverlap == InitOverlap /\ [][NextOverlap]_vars

\* ------------------------------------- run() once, every await settling
\* The waitTime options here: the default delay, or no delay.
LiveWaitOptions == {Missing, Given(-1)}

\* The forests of Spec, the tasks constructed with the same retries and
\* waitTime, all with a checkCondition or all without.
InitLive ==
  /\ \E f \in Forests :
       /\ children = f.children
       /\ taskGroups = f.taskGroups
  /\ \E n \in RetryOptions, w \in LiveWaitOptions, c \in CheckConditionOptions :
       task = [t \in Tasks |->
                 NewTask([id |-> TaskIdOf[t], retries |-> n,
                          waitTime |-> w,
                          checkCondition |-> c])]
  /\ nextTaskId = Undefined
  /\ inv = [p \in Procs |-> NoInv]
  /\ events = <<>>
  /\ listeners = NoListeners
  /\ calls = <<>>
  /\ obs = [t \in Tasks |-> NoObs]

NextLive ==
  \/ CallRun(1)
  \/ FlowStep(1)
  \/ TaskStep(1, {"e1"}, {MaxElapsed})

\* The caller calls run(); every promise the code awaits settles and every
\* continuation runs.
SpecLive == InitLive /\ [][NextLive]_vars /\ WF_vars(NextLive)

\* ------------------------------------------------- getSerializedState
\* The objects getSerializedState reaches through `this`: the tasks, the
\* children Maps of the groups, the Map of root groups, and the branch
\* pointer next to it.
Heap ==
  [task |-> task, children |-> children, taskGroups |-> taskGroups,
   nextTaskId |-> nextTaskId]

\* `(child as Task).time || 0`: a TaskGroup has no time field.
ChildTimeMutant(h, child) == 0
ChildTime(h, child) == IF IsTask(child) THEN h.task[child].time ELSE 0

\* The key forEach passes with a child: the id it was added under.
KeyOf(h, child) == IF IsTask(child) THEN h.task[child].id ELSE GroupId(child)

\* What the forEach callback assigns on the objects it is given, once it has
\* added the child's time to totalTime: nothing, all its assignments are to
\* its locals and to the fresh groupState object.
ChildWritesMutant(h, child, totalTime) ==
  IF IsTask(child) THEN [h EXCEPT !.task[child].time = totalTime] ELSE h
ChildWrites(h, child, totalTime) == h

\* The test that keeps allCompleted: the child's state is "completed".
IsCompletedMutant(state) == state \in {"completed", "skipped", "failed"}
IsCompleted(state) == state = "completed"

\* The test that sets hasInProgress.
IsInProgressMutant(state) == FALSE
IsInProgress(state) == state = "in_progress"

\* groupStatus from the two flags.
GroupStatus(hasInProgress, allCompleted) ==
  IF hasInProgress THEN "in_progress"
  ELSE IF allCompleted THEN "completed"
  ELSE "not_started"

\* serializeTaskGroup's locals before its forEach.
InitialLocalsMutant ==
  [groupState |-> <<>>, totalTime |-> 0, hasInProgress |-> FALSE,
   allCompleted |-> FALSE]
InitialLocals ==
  [groupState |-> <<>>, totalTime |-> 0, hasInProgress |-> FALSE,
   allCompleted |-> TRUE]

\* serializeTaskGroup(g) called with the objects as in h: the forEach over the
\* children accumulates groupState (as the sequence of its <<id, node>>
\* entries), totalTime, hasInProgress and allCompleted. It gives the node it
\* returns and the objects as it leaves them.
RECURSIVE SerializeTaskGroupIn(_, _)
SerializeTaskGroupIn(h0, g) ==
  LET kids == h0.children[g]
      RECURSIVE ForEach(_, _, _)
      ForEach(i, acc, h) ==
        IF i > Len(kids) THEN [locals |-> acc, heap |-> h]
        ELSE LET child == kids[i]
                 childTime == ChildTime(h, child)
                 totalTime == acc.totalTime + childTime
                 sub == IF IsTask(child)
                        THEN [data |-> [type |-> "task",
                                        state |-> h.task[child].state,
                                        time |-> childTime],
                              heap |-> h]
                        ELSE SerializeTaskGroupIn(h, child)
                 data == sub.data
             IN ForEach(i + 1,
                  [groupState |-> Append(acc.groupState, <<KeyOf(h, child), data>>),
                   totalTime |-> totalTime,
                   hasInProgress |-> acc.hasInProgress \/ IsInProgress(data.state),
                   allCompleted |-> acc.allCompleted /\ IsCompleted(data.state)],
                  ChildWrites(sub.heap, child, totalTime))
      done == ForEach(1, InitialLocals, h0)
  IN [data |-> [type |-> "task-group",
                state |-> GroupStatus(done.locals.hasInProgress,
                                      done.locals.allCompleted),
                time |-> done.locals.totalTime,
                children |-> done.locals.groupState],
      heap |-> done.heap]

\* The node serializeTaskGroup(g) returns in the current state.
SerializeTaskGroup(g) == SerializeTaskGroupIn(Heap, g).data

\* getSerializedState() called with the objects as in h0: one entry per root
\* group. It gives the state it returns and the objects as it leaves them.
GetSerializedStateFrom(h0) ==
  LET roots == h0.taskGroups
      RECURSIVE ForEachRoot(_, _, _)
      ForEachRoot(i, state, h) ==
        IF i > Len(roots) THEN [state |-> state, heap |-> h]
        ELSE LET groupData == SerializeTaskGroupIn(h, roots[i])
             IN ForEachRoot(i + 1,
                            Append(state, <<GroupId(roots[i]), groupData.data>>),
                            groupData.heap)
  IN ForEachRoot(1, <<>>, h0)

\* What getSerializedState() returns in the current state.
GetSerializedState == GetSerializedStateFrom(Heap).state

\* The objects are as in h after the step.
LeavesObjects(h) ==
  /\ task' = h.task
  /\ children' = h.children
  /\ taskGroups' = h.taskGroups
  /\ nextTaskId' = h.nextTaskId

\* ------------------------------------ reading the state during a run()
\* flowControl.getSerializedState() is called by invocation p (a listener, or
\* any code of the caller): the call returns the serialized state and leaves
\* the objects as its statements leave them.
CallGetSerializedState(p) ==
  LET call == GetSerializedStateFrom(Heap)
  IN /\ inv[p].pc \in {"idle", "done"}
     /\ inv' = [inv EXCEPT ![p] = [NoInv EXCEPT !.op = "getSerializedState",
                                                !.pc = "called",
                                                !.value = call.state]]
     /\ LeavesObjects(call.heap)
     /\ UNCHANGED <<events, listeners, calls, obs>>

\* The caller calls it again in its next statement, and keeps both results.
CallGetSerializedStateAgain(p) ==
  LET call == GetSerializedStateFrom(Heap)
  IN /\ inv[p].pc = "called"
     /\ inv' = [inv EXCEPT ![p].pc = "done", ![p].outcome = "resolved",
                           ![p].result = call.state]
     /\ LeavesObjects(call.heap)
     /\ UNCHANGED <<events, listeners, calls, obs>>

\* The caller is between its two calls: nothing else runs.
Reading == inv[2].pc = "called"

\* A, X, and a nested group with B.
ReadForest ==
  [taskGroups |-> <<"g1">>,
   children |-> [NoChildren EXCEPT !["g1"] = <<"t1", "t2", "g2">>,
                                   !["g2"] = <<"t3">>]]

InitRead ==
  /\ children = ReadForest.children
  /\ taskGroups = ReadForest.taskGroups
  /\ \E n \in BranchRetries :
       task = [t \in Tasks |->
                 NewTask([id |-> TaskIdOf[t], retries |-> n,
                          waitTime |-> Missing,
                          checkCondition |-> AFunction])]
  /\ nextTaskId = Undefined
  /\ inv = [p \in Procs |-> NoInv]
  /\ events = <<>>
  /\ listeners = NoListeners
  /\ calls = <<>>
  /\ obs = [t \in Tasks |-> NoObs]

\* run() once, and pairs of reads at any point of it.
NextRead ==
  \/ CallGetSerializedState(2)
  \/ CallGetSerializedStateAgain(2)
  \/ ~Reading /\ CallRun(1)
  \/ ~Reading /\ FlowStep(1)
  \/ ~Reading /\ TaskStep(1, {"e1"}, {MaxElapsed})

SpecRead == InitRead /\ [][NextRead]_vars

\* ------------------------------------------------------------ claims
\* Task.run of t has settled.
Settled(t) == obs[t].run \in {"resolved", "rejected"}

\* C1: a task whose execute always rejects (so checkCondition is never
\* called) has had execute invoked exactly retries + 1 times when Task.run
\* settles, and is then failed.
C1_AttemptsOnPermanentFailure ==
  \A t \in Tasks :
    (Settled(t) /\ obs[t].failures = obs[t].execute /\ obs[t].checkCondition = 0)
      => (obs[t].execute = task[t].retries + 1 /\ task[t].state = "failed")

\* C2: when every attempt of a task failed, Task.run has rejected with the
\* error of the last failed attempt; it has not resolved.
C2_RejectsWithLastError ==
  \A t \in Tasks :
    (Settled(t) /\ obs[t].failures = obs[t].execute)
      => (obs[t].run = "rejected" /\ obs[t].value = obs[t].lastError)

\* ---- the forest, as a caller sees it
\* The tasks of the forest in the order a depth-first walk meets them.
Order == ForestTasks(children, taskGroups)
ForestGroups == UNION {GroupsUnder(children, taskGroups[i]) :
                         i \in 1..Len(taskGroups)}
Under(g) == Range(TasksUnder(children, g))

\* How often an event was emitted with an argument.
Emitted(name, arg) ==
  {i \in 1..Len(events) : events[i].name = name /\ events[i].arg = arg}
Times(name, arg) == Cardinality(Emitted(name, arg))

\* The one run() of the specification.
RunResolved == inv[1].op = "run" /\ inv[1].outcome = "resolved"
RunRejected == inv[1].op = "run" /\ inv[1].outcome = "rejected"

\* executeTask has been called on t, and has returned.
Visited(t) == task[t].state # "not_started" \/ obs[t].run # "idle"
Left(t) == task[t].state = "skipped" \/ obs[t].run = "resolved"

\* Every attempt of t so far failed, and Task.run has settled.
FailedForGood(t) == Settled(t) /\ obs[t].failures = obs[t].execute

\* The first task of the first root group, when there is one.
FirstTasks ==
  IF taskGroups = <<>> THEN {}
  ELSE LET kids == children[taskGroups[1]]
       IN IF kids # <<>> /\ IsTask(kids[1]) THEN {kids[1]} ELSE {}
\* The tasks of the root groups after the first.
LaterRootTasks ==
  UNION {Under(taskGroups[i]) : i \in 2..Len(taskGroups)}

\* C3: fail-fast: once the first task of the first root group has failed
\* on every attempt, run() does not resolve and no task of a later root
\* group is started: no taskStarted, no execute call, state unchanged.
C3_FailFast ==
  \A f \in FirstTasks :
    FailedForGood(f)
      => /\ ~RunResolved
         /\ \A t \in LaterRootTasks :
              /\ Times("taskStarted", <<t>>) = 0
              /\ obs[t].execute = 0
              /\ task[t].state = "not_started"

\* C4: all-or-nothing: when run() has resolved, no task of the forest is
\* failed.
C4_ResolvedMeansNoFailedTask ==
  RunResolved => \A t \in Range(Order) : task[t].state # "failed"

\* ---- C5
\* a, x, b are positions of sibling tasks of group g, x between a and b; the
\* task at a returned the id of the task at b, and no task met between them
\* has that id.
Branched(g, a, x, b) ==
  LET kids == children[g]
  IN /\ a < x /\ x < b /\ b <= Len(kids)
     /\ IsTask(kids[a]) /\ IsTask(kids[x]) /\ IsTask(kids[b])
     /\ obs[kids[a]].run = "resolved"
     /\ obs[kids[a]].value = task[kids[b]].id
     /\ \A k \in (a + 1)..(b - 1) :
          \A t \in Under(kids[k]) : task[t].id # task[kids[b]].id

\* Invocation 1 is in runTaskGroup(g), executeTask of the child at position
\* b has just returned.
JustLeft(g, b) ==
  /\ inv[1].pc = "runTaskGroup"
  /\ inv[1].stack[Len(inv[1].stack)].group = g
  /\ inv[1].stack[Len(inv[1].stack)].i = b + 1

NeverRan(t) ==
  /\ obs[t].execute = 0
  /\ Times("taskStarted", <<t>>) = 0
  /\ Times("taskComplete", <<t>>) = 0

\* The attempt of t succeeded and resolved to nothing.
RanNormally(t) ==
  obs[t].run = "resolved" /\ obs[t].value = Undefined /\ obs[t].failures = 0

\* C5: branching: task A resolved to the id of its later sibling B; when B
\* has been dealt with, and after run(), every sibling task X between them
\* is skipped and was never executed, B was executed and not skipped, and
\* when B ran normally (its attempt succeeded, resolving to nothing) it is
\* completed and the branch pointer is unset right after it.
C5_BranchSkipsSiblings ==
  \A g \in Groups : \A a, x, b \in 1..Len(children[g]) :
    LET X == children[g][x]
        B == children[g][b]
    IN (Branched(g, a, x, b) /\ (JustLeft(g, b) \/ RunResolved))
         => /\ task[X].state = "skipped"
            /\ NeverRan(X)
            /\ task[B].state # "skipped"
            /\ obs[B].execute >= 1
            /\ Times("taskStarted", <<B>>) = 1
            /\ RanNormally(B) => task[B].state = "completed"
            /\ (RanNormally(B) /\ JustLeft(g, b)) => nextTaskId = Undefined

\* C5 witness: A returned B's id, X between them was skipped, B completed and
\* the pointer is unset right after B.
C5_Witness ==
  \E g \in Groups : \E a, x, b \in 1..Len(children[g]) :
    /\ Branched(g, a, x, b) /\ JustLeft(g, b)
    /\ task[children[g][x]].state = "skipped"
    /\ RanNormally(children[g][b])
    /\ task[children[g][b]].state = "completed"
    /\ nextTaskId = Undefined

\* ---- C6
\* Every task of the forest that was run succeeded at once, resolving to
\* nothing.
AllSucceed == \A t \in Range(Order) : obs[t].failures = 0 /\ obs[t].value = Undefined

\* C6: when the tasks all succeed, run() has resolved only if every task of
\* every root group is completed, with execute and checkCondition each
\* called exactly once.
C6_AllCompletedOnResolve ==
  (RunResolved /\ AllSucceed)
    => \A t \in Range(Order) :
         /\ task[t].state = "completed"
         /\ obs[t].execute = 1
         /\ obs[t].checkCondition = 1

\* C6 witness: run() resolved over two root groups whose tasks succeeded.
C6_Witness ==
  /\ RunResolved /\ AllSucceed
  /\ Len(taskGroups) = 2
  /\ \A i \in 1..2 : Under(taskGroups[i]) # {}
  /\ \A t \in Range(Order) : task[t].state = "completed"

\* ---- C7
\* C7: tasks are started in the depth-first order of the forest: a task has
\* been visited only when every task before it in that order has been
\* visited and left (skipped, or its retry protocol returned).
C7_DepthFirstOrder ==
  \A j \in 1..Len(Order) :
    Visited(Order[j]) => \A i \in 1..(j - 1) : Visited(Order[i]) /\ Left(Order[i])

\* C7 witness: the task after a nested group is being attempted, the task
\* before the group and the task inside it have been left.
C7_Witness ==
  \E g \in Groups : \E h \in Groups :
    /\ Len(children[g]) = 3 /\ children[g][2] = h /\ Len(children[h]) = 1
    /\ IsTask(children[g][1]) /\ IsTask(children[g][3])
    /\ obs[children[g][3]].run = "running"
    /\ Left(children[g][1]) /\ obs[children[h][1]].run = "resolved"

\* ---- C8
InProgress == {t \in Tasks : task[t].state = "in_progress"}

\* C8: during one run(), at most one task is in_progress.
C8_OneInProgress == Cardinality(InProgress) <= 1

\* C8 witness: one task is in_progress while an earlier task is completed
\* and another earlier task is failed.
C8_Witness ==
  /\ Cardinality(InProgress) = 1
  /\ \E t \in Tasks : task[t].state = "completed"
  /\ \E t \in Tasks : task[t].state = "failed"

\* ---- C9
\* The position of the only emission of an event.
At(name, arg) == CHOOSE i \in Emitted(name, arg) : TRUE

\* Invocation 1 is between the return of t's Task.run and the rest of
\* executeTask.
Resuming(t) == inv[1].pc = "executeTask.resume" /\ inv[1].t = t

\* C9: a task that is executed gets exactly one taskStarted, emitted before
\* its first execute call, and, when its retry protocol returned, exactly
\* one taskComplete after it; a skipped task gets neither.
C9_StartedThenComplete ==
  \A t \in Tasks :
    /\ Times("taskStarted", <<t>>) <= 1
    /\ Times("taskComplete", <<t>>) <= 1
    /\ obs[t].execute > 0 => Times("taskStarted", <<t>>) = 1
    /\ obs[t].run = "running" =>
         Times("taskStarted", <<t>>) = 1 /\ Times("taskComplete", <<t>>) = 0
    /\ (obs[t].run = "resolved" /\ ~Resuming(t)) =>
         Times("taskComplete", <<t>>) = 1
    /\ Times("taskComplete", <<t>>) = 1 =>
         /\ obs[t].run = "resolved"
         /\ Times("taskStarted", <<t>>) = 1
         /\ At("taskStarted", <<t>>) < At("taskComplete", <<t>>)
    /\ task[t].state = "skipped" =>
         Times("taskStarted", <<t>>) = 0 /\ Times("taskComplete", <<t>>) = 0

\* C9 witness: one task was skipped and a later one executed and completed,
\* with both of its events emitted.
C9_Witness ==
  \E s, t \in Tasks :
    /\ task[s].state = "skipped"
    /\ task[t].state = "completed"
    /\ Times("taskStarted", <<t>>) = 1 /\ Times("taskComplete", <<t>>) = 1

\* ---- C10
Succeeded(g) == Times("success", CompletedMessage(g))

\* C10: a group's success event is emitted at most once, only after every
\* task under it has been left and every group nested in it has emitted its
\* own; after run() resolved every group has emitted it once; a group with a
\* task whose retry protocol rejected never emits it.
C10_GroupSuccess ==
  \A g \in ForestGroups :
    /\ Succeeded(g) <= 1
    /\ Succeeded(g) = 1 =>
         /\ \A t \in Under(g) : Left(t)
         /\ \A h \in GroupsUnder(children, g) \ {g} :
              /\ Succeeded(h) = 1
              /\ At("success", CompletedMessage(h))
                   < At("success", CompletedMessage(g))
    /\ RunResolved => Succeeded(g) = 1
    /\ (\E t \in Under(g) : obs[t].run = "rejected") => Succeeded(g) = 0

\* C10 witness: a nested group with a task emitted its success, then the
\* retry protocol of a later task of the enclosing group rejected, and the
\* enclosing group emitted none.
C10_Witness ==
  \E g, h \in ForestGroups :
    /\ h # g /\ h \in GroupsUnder(children, g)
    /\ Under(h) # {}
    /\ Succeeded(h) = 1 /\ Succeeded(g) = 0
    /\ \E t \in Under(g) : obs[t].run = "rejected"

\* ---- C11
\* The serialized node of a child of a group.
ChildNodes(g) ==
  LET node == SerializeTaskGroup(g)
  IN {node.children[i][2] : i \in 1..Len(node.children)}

\* C11: a serialized group is in_progress when a task at any depth under it
\* is in_progress; otherwise completed when every child node is completed;
\* otherwise not_started.
C11_GroupState ==
  \A g \in ForestGroups :
    SerializeTaskGroup(g).state =
      IF \E t \in Under(g) : task[t].state = "in_progress" THEN "in_progress"
      ELSE IF \A n \in ChildNodes(g) : n.state = "completed" THEN "completed"
      ELSE "not_started"

\* C11 witness: a group reports in_progress for a task in a nested group
\* while one of its own child tasks is completed and another not started.
C11_Witness ==
  \E g \in ForestGroups : \E h \in GroupsUnder(children, g) \ {g} :
    /\ SerializeTaskGroup(g).state = "in_progress"
    /\ \E t \in Under(h) : task[t].state = "in_progress"
    /\ \E t \in Range(children[g]) : IsTask(t) /\ task[t].state = "completed"
    /\ \E t \in Range(children[g]) : IsTask(t) /\ task[t].state = "not_started"

\* ---- C12
\* C12: a serialized group state is not_started, in_progress or completed;
\* with a failed or skipped child task and no task in_progress under it, the
\* group reports not_started.
C12_NoFailedOrSkippedGroup ==
  \A g \in ForestGroups :
    /\ SerializeTaskGroup(g).state \in {"not_started", "in_progress", "completed"}
    /\ ( /\ \E c \in Range(children[g]) :
              IsTask(c) /\ task[c].state \in {"failed", "skipped"}
         /\ \A t \in Under(g) : task[t].state # "in_progress" )
       => SerializeTaskGroup(g).state = "not_started"

\* C12 witness: a group of three tasks, one failed and the others completed,
\* reports not_started.
C12_Witness ==
  \E g \in ForestGroups :
    /\ Len(children[g]) = 3
    /\ \A c \in Range(children[g]) : IsTask(c)
    /\ Cardinality({c \in Range(children[g]) : task[c].state = "failed"}) = 1
    /\ Cardinality({c \in Range(children[g]) : task[c].state = "completed"}) = 2
    /\ SerializeTaskGroup(g).state = "not_started"

\* ---- C13
\* The sum of the time fields of a sequence of <<id, node>> entries.
RECURSIVE SumTimes(_)
SumTimes(entries) ==
  IF entries = <<>> THEN 0
  ELSE entries[1][2].time + SumTimes(Tail(entries))

\* The sum of the time fields of the tasks among the children of a group.
RECURSIVE SumTaskTimes(_)
SumTaskTimes(kids) ==
  IF kids = <<>> THEN 0
  ELSE (IF IsTask(kids[1]) THEN task[kids[1]].time ELSE 0)
         + SumTaskTimes(Tail(kids))

\* C13 as claimed: the time of a group node is the sum of the times of the
\* serialized nodes of its children, tasks and nested groups alike.
C13_TimeSumsAllChildren ==
  \A g \in ForestGroups :
    SerializeTaskGroup(g).time = SumTimes(SerializeTaskGroup(g).children)

\* C13 as amended: the time of a group node is the sum of the times of its
\* children that are tasks; a nested group adds nothing, whatever its own
\* serialized time.
C13_TimeSumsTaskChildren ==
  \A g \in ForestGroups :
    SerializeTaskGroup(g).time = SumTaskTimes(children[g])

\* C13 witness: a group with completed child tasks and a nested group whose
\* own time is not 0.
C13_Witness ==
  \E g \in ForestGroups :
    LET node == SerializeTaskGroup(g)
    IN /\ node.time > 0
       /\ \E i \in 1..Len(node.children) :
            node.children[i][2].type = "task-group" /\ node.children[i][2].time > 0

\* ---- C14
\* In the next state runTask of invocation p has returned v: to the test for
\* a direct call, else to Task.run, which awaits it.
RunTaskReturns(p, v) ==
  IF IsRunTask(inv[p])
  THEN inv'[p].outcome = "resolved" /\ inv'[p].value = v
  ELSE inv'[p].pc = "runTask.resolved" /\ inv'[p].result = v

\* C14: runTask has set in_progress when execute is called; when execute has
\* resolved and checkCondition resolves true it sets completed and returns
\* exactly the value execute resolved with; a task with a checkCondition is
\* not completed before it was called, and a task without one is completed
\* when execute resolves.
C14_RunTaskSuccess ==
  [][\A p \in Procs :
       /\ (inv[p].pc # "execute" /\ inv'[p].pc = "execute")
            => task'[inv'[p].t].state = "in_progress"
       /\ ( /\ inv[p].pc = "checkCondition"
            /\ inv'[p].pc # "checkCondition"
            /\ obs'[inv[p].t].failures = obs[inv[p].t].failures )
            => /\ task'[inv[p].t].state = "completed"
               /\ RunTaskReturns(p, inv[p].result)
       /\ ( /\ inv[p].pc = "execute"
            /\ inv'[p].pc # "execute"
            /\ obs'[inv[p].t].failures = obs[inv[p].t].failures )
            => IF HasCheckCondition(inv[p].t)
               THEN /\ inv'[p].pc = "checkCondition"
                    /\ task' = task
                    /\ obs'[inv[p].t].checkCondition
                         = obs[inv[p].t].checkCondition + 1
               ELSE /\ task'[inv[p].t].state = "completed"
                    /\ \E v \in ExecuteResults : RunTaskReturns(p, v)
                    /\ obs'[inv[p].t].checkCondition = 0
       /\ (inv[p].pc = "runTask.resolved" /\ inv'[p].pc # "runTask.resolved")
            => /\ task' = task
               /\ inv'[p].outcome = "resolved"
               /\ inv'[p].value = inv[p].result]_vars

\* C14 witness: a direct runTask call has resolved with the id execute
\* resolved with, and the task is completed.
C14_Witness ==
  \E p \in Procs, t \in Tasks :
    /\ inv[p].op = "Task.runTask" /\ inv[p].outcome = "resolved"
    /\ inv[p].value \in BranchIds
    /\ obs[t].execute = 1 /\ obs[t].checkCondition = 1
    /\ task[t].state = "completed"

\* ---- C15
\* C15: a failed attempt leaves the task failed and runTask rejects with the
\* error that caused it: execute's error, with checkCondition not called;
\* checkCondition's error; or 'Condition not met' after execute has run.
C15_RunTaskFailure ==
  \A p \in Procs, t \in Tasks :
    /\ (inv[p].pc \in {"runTask.rejected", "wait"} /\ inv[p].t = t)
         => task[t].state = "failed" /\ inv[p].error = obs[t].lastError
    /\ (inv[p].op = "Task.runTask" /\ inv[p].outcome = "rejected"
          /\ obs[t].execute > 0)
         => /\ task[t].state = "failed"
            /\ inv[p].value = obs[t].lastError
            /\ obs[t].checkCondition = 0 => inv[p].value \in Errors
            /\ inv[p].value = ConditionNotMet
                 => obs[t].execute = 1 /\ obs[t].checkCondition = 1

\* C15 witness: a direct runTask call rejected with the error checkCondition
\* rejected with.
C15_Witness ==
  \E p \in Procs, t \in Tasks :
    /\ inv[p].op = "Task.runTask" /\ inv[p].outcome = "rejected"
    /\ task[t].state = "failed"
    /\ inv[p].value = "e2" /\ obs[t].checkCondition = 1

\* ---- C16
\* C16: when Task.run has settled, the task is completed exactly when the
\* last attempt succeeded and failed exactly when the last attempt failed.
C16_StateAfterRun ==
  \A t \in Tasks :
    Settled(t) =>
      /\ task[t].state \in {"completed", "failed"}
      /\ task[t].state = "completed" <=> obs[t].lastAttempt = "succeeded"
      /\ task[t].state = "failed" <=> obs[t].lastAttempt = "failed"

\* C16 witness: Task.run settled with a success after a failed attempt.
C16_Witness ==
  \E t \in Tasks :
    /\ Settled(t) /\ obs[t].failures > 0
    /\ obs[t].lastAttempt = "succeeded" /\ task[t].state = "completed"

\* ---- C17
\* C17: Task.run settles either with the first successful attempt, the k-th
\* for some k <= retries + 1, resolving with its result after exactly k calls
\* of execute and no delay after it, or after all retries + 1 attempts failed.
C17_FirstSuccess ==
  \A t \in Tasks :
    Settled(t) =>
      IF obs[t].lastAttempt = "succeeded"
      THEN /\ obs[t].run = "resolved"
           /\ obs[t].execute = obs[t].failures + 1
           /\ obs[t].execute <= task[t].retries + 1
           /\ obs[t].wait <= obs[t].failures
      ELSE obs[t].execute = task[t].retries + 1

\* ---- C19
\* C19: a task constructed with waitTime 0 has waitTime 0 and awaits no delay
\* after a failed attempt.
C19_ZeroWaitTime ==
  \A t \in Tasks :
    obs[t].waitTimeOption = Given(0) => task[t].waitTime = 0 /\ obs[t].wait = 0

\* ---- C18
\* A change of t's state from a to b in one step.
Move(t, a, b) == task[t].state = a /\ task'[t].state = b

\* The changes of the state machine of a task; failed -> in_progress after
\* at least one and at most `retries` failed attempts of the protocol.
Basic(t) ==
  \/ Move(t, "not_started", "in_progress")
  \/ Move(t, "in_progress", "completed")
  \/ Move(t, "in_progress", "failed")
  \/ Move(t, "not_started", "skipped")
  \/ Move(t, "failed", "in_progress") /\ obs[t].failures \in 1..task[t].retries

\* The first visit of t by a later operation: whatever state the earlier one
\* left, the task is started again or skipped.
Restart(t) ==
  /\ inv[2].op # "none"
  /\ obs[t].execute = 0
  /\ task[t].state \in {"completed", "failed", "skipped"}
  /\ task'[t].state \in {"in_progress", "skipped"}

\* C18 as claimed: over run, runTask and repeated runs every change of a
\* task's state is one of the changes of the state machine.
C18_StateMachine ==
  [][\A t \in Tasks : task'[t].state # task[t].state => Basic(t)]_vars

\* C18 as amended: the first operation on fresh tasks makes only the changes
\* of the state machine; a later operation also restarts or skips a task at
\* its first visit from completed, failed or skipped.
C18_StateMachinePerOperation ==
  [][\A t \in Tasks :
       task'[t].state # task[t].state => Basic(t) \/ Restart(t)]_vars

\* C18 witness: a second operation has started again a task with retries 0
\* that the first one left failed.
C18_Witness ==
  \E t \in Tasks :
    /\ inv[2].op # "none"
    /\ obs[t].before.state = "failed" /\ task[t].retries = 0
    /\ task[t].state = "in_progress"

\* ---- C20
\* The operation the test called last.
Current == IF inv[2].op # "none" THEN 2 ELSE 1

\* The position of a task in the traversal order.
Position(t) == CHOOSE i \in 1..Len(Order) : Order[i] = t

\* C20: when run() has rejected, a task's retry protocol rejected, and every
\* task after it in traversal order has the state and time it had before the
\* call and no call of its execute.
C20_LaterTasksUntouched ==
  (inv[Current].op = "run" /\ inv[Current].outcome = "rejected") =>
    /\ \E T \in Range(Order) : obs[T].run = "rejected"
    /\ \A T, t \in Range(Order) :
         (obs[T].run = "rejected" /\ Position(T) < Position(t)) =>
           /\ task[t].state = obs[t].before.state
           /\ task[t].time = obs[t].before.time
           /\ obs[t].execute = 0

\* C20 witness: a second run() rejected at a task, and a later task that the
\* first call had completed in MaxElapsed ms is still so.
C20_Witness ==
  /\ inv[2].op = "run" /\ inv[2].outcome = "rejected"
  /\ \E T, t \in Range(Order) :
       /\ obs[T].run = "rejected" /\ Position(T) < Position(t)
       /\ obs[t].before = [state |-> "completed", time |-> MaxElapsed]
       /\ task[t].state = "completed" /\ task[t].time = MaxElapsed

\* ---- C21
\* The only task with the id sits in a nested group: no root group has a
\* direct child task with it.
NestedOnly(id) ==
  /\ Cardinality({t \in Range(Order) : task[t].id = id}) = 1
  /\ \A i \in 1..Len(taskGroups) : \A c \in Range(children[taskGroups[i]]) :
       IsTask(c) => task[c].id # id

\* C21: every step of runTask(id) for an id found only in a nested group
\* leaves the tasks, the branch pointer, the events and the calls of execute
\* unchanged, and the call ends resolved.
C21_RunTaskDirectChildrenOnly ==
  [][\A p \in Procs :
       (inv[p].op = "runTask" /\ inv[p].pc = "runTask"
          /\ NestedOnly(inv[p].taskId))
         => /\ UNCHANGED <<task, nextTaskId, events, obs>>
            /\ inv'[p].pc \in {"runTask", "done"}
            /\ inv'[p].outcome # "rejected"]_vars

\* C21 witness: runTask(id) resolved for such an id while a branch target
\* was pending, after an earlier call.
C21_Witness ==
  /\ inv[2].op = "runTask" /\ inv[2].outcome = "resolved"
  /\ NestedOnly(inv[2].taskId)
  /\ nextTaskId # Undefined
  /\ \A t \in Tasks : obs[t].execute = 0 /\ task[t].state = obs[t].before.state

\* ---- C22
\* The calls emit(event, args) owes to a sequence of listeners.
CallsOf(ls, event, args) ==
  [i \in 1..Len(ls) |-> [listener |-> ls[i], event |-> event, arg |-> args]]

\* The last emit call of the log.
LastEmit(log) == log[Len(log)]

\* C22: on() appends the listener to the listeners of its event and to no
\* other; an emit whose listeners all return calls exactly the listeners of
\* its event, once per registration, in registration order, with its
\* arguments, and returns; without listeners it calls nothing and returns.
C22_EmitCallsListeners ==
  [][/\ listeners' # listeners =>
          \E e \in TestEvents, l \in Listeners :
            /\ ListenersOf(listeners', e) = Append(ListenersOf(listeners, e), l)
            /\ \A x \in TestEvents \ {e} :
                 ListenersOf(listeners', x) = ListenersOf(listeners, x)
     /\ Len(events') = Len(events) + 1 =>
          LET e == LastEmit(events')
              ls == ListenersOf(listeners, e.name)
          IN (\A i \in 1..Len(ls) : ~Throws(ls[i])) =>
               /\ calls' = calls \o CallsOf(ls, e.name, e.arg)
               /\ inv'[1].outcome = "resolved"
               /\ listeners' = listeners]_vars

\* C22 witness: an emit with two arguments called a listener registered
\* twice and another one registered between the two.
C22_Witness ==
  /\ events # <<>> /\ LastEmit(events) = [name |-> "event1", arg |-> <<"arg1", 42>>]
  /\ ListenersOf(listeners, "event1") = <<"l2", "l1", "l2">>
  /\ calls = CallsOf(<<"l2", "l1", "l2">>, "event1", <<"arg1", 42>>)
  /\ inv[1].outcome = "resolved"

\* ---- C23
\* The position of the first listener of ls that throws.
FirstThrower(ls) ==
  CHOOSE k \in 1..Len(ls) : Throws(ls[k]) /\ \A j \in 1..(k - 1) : ~Throws(ls[j])

\* An async function of invocation 1 has rejected and run() has not yet.
Propagating == inv[1].pc \in {"Task.run.rejected", "executeTask.rejected",
                              "runTaskGroup.rejected"}

\* The function that emits the event: its promise is the one a throwing
\* listener rejects.
EmitterPc(name) ==
  IF name = "success" THEN "runTaskGroup.rejected" ELSE "executeTask.rejected"

\* C23: when a listener of an emitted event throws, the listeners up to it
\* are called and none after it, and the exception leaves emit and rejects
\* the function that emitted (executeTask or runTaskGroup) in that step; when
\* the event is taskStarted the task's execute is not called and its state is
\* unchanged. From then on each step rejects the next enclosing function with
\* the same error and nothing else happens: no event, no listener call, no
\* change of a task or of the pointer, no execute call. With every
\* continuation run, run() rejects with the listener's error, and when the
\* listener was a taskStarted listener the task is then still not started
\* and its execute was never called.
C23_ListenerThrows ==
  /\ [][/\ Len(events') = Len(events) + 1 =>
            LET e == LastEmit(events')
                ls == ListenersOf(listeners, e.name)
            IN (\E i \in 1..Len(ls) : Throws(ls[i])) =>
                 /\ calls' = calls \o CallsOf(SubSeq(ls, 1, FirstThrower(ls)),
                                             e.name, e.arg)
                 /\ inv'[1].pc = EmitterPc(e.name)
                 /\ inv'[1].error = ListenerError
                 /\ inv'[1].outcome = "pending"
                 /\ e.name = "taskStarted" =>
                      /\ task' = task
                      /\ obs'[e.arg[1]].execute = 0
                      /\ task[e.arg[1]].state = "not_started"
        /\ Propagating =>
             /\ UNCHANGED <<task, children, taskGroups, nextTaskId, events,
                            listeners, calls, obs>>
             /\ \/ Propagating' /\ inv'[1].error = inv[1].error
                \/ /\ inv'[1].outcome = "rejected"
                   /\ inv'[1].value = inv[1].error]_vars
  /\ (Propagating /\ inv[1].error = ListenerError)
       ~> (RunRejected /\ inv[1].value = ListenerError)
  /\ []( ( /\ RunRejected /\ inv[1].value = ListenerError
           /\ LastEmit(events).name = "taskStarted" )
         => LET t == LastEmit(events).arg[1]
            IN task[t].state = "not_started" /\ obs[t].execute = 0 )

\* C23 witness: run() rejected with the error of a taskStarted listener that
\* was registered between two others; the first was called, the last was not,
\* and the task was not started.
C23_Witness ==
  /\ inv[1].op = "run" /\ inv[1].outcome = "rejected"
  /\ inv[1].value = ListenerError
  /\ ListenersOf(listeners, "taskStarted") = <<"l1", "bad", "l1">>
  /\ calls = CallsOf(<<"l1", "bad">>, "taskStarted", <<"t1">>)
  /\ task["t1"].state = "not_started" /\ obs["t1"].execute = 0

\* ---- C24
\* The calls of a listener for an event with an argument.
CallsWith(l, event, arg) ==
  {i \in 1..Len(calls) : calls[i] = [listener |-> l, event |-> event, arg |-> arg]}

\* C24: a listener registered on "taskCompleted" that returns has been called
\* with the task as often as the orchestrator has finished executing it (as
\* often as it emitted its completion event for the task).
C24_TaskCompletedListener ==
  \A t \in Tasks :
    LET ls == ListenersOf(listeners, "taskCompleted")
    IN \A i \in 1..Len(ls) :
         (\A j \in 1..Len(ls) : ~Throws(ls[j])) =>
           Cardinality(CallsWith(ls[i], "taskCompleted", <<t>>))
             >= Times("taskComplete", <<t>>)

\* ---- C25
\* The positions of an id in a Map kept as the sequence of its values.
PositionsOf(m, id) == {i \in 1..Len(m) : NodeId(m[i]) = id}

\* m without its entry at position k.
Without(m, k) == SubSeq(m, 1, k - 1) \o SubSeq(m, k + 1, Len(m))

\* The caller's last call, when this step made it.
JustCalled(op) == inv'[2].op = op /\ (inv'[2] # inv[2] \/ children' # children
                                        \/ taskGroups' # taskGroups)

\* C25: after addChild(t) the id of t is present in the group; removeChild(id)
\* leaves the group without the id, a lookup absent, and the other children
\* as they were and in their order; for an absent id nothing changes; no
\* other group is touched.
C25_AddThenRemoveChild ==
  [][/\ JustCalled("addChild") =>
          Get(children'[inv'[2].self], NodeId(inv'[2].t)) = inv'[2].t
     /\ JustCalled("removeChild") =>
          LET g == inv'[2].self
              id == inv'[2].taskId
              at == PositionsOf(children[g], id)
          IN /\ Get(children'[g], id) = Undefined
             /\ PositionsOf(children'[g], id) = {}
             /\ at = {} => children'[g] = children[g]
             /\ \A k \in at : children'[g] = Without(children[g], k)
             /\ \A h \in Groups \ {g} : children'[h] = children[h]
             /\ taskGroups' = taskGroups]_vars

\* C25 witness: after removeChild("B") the group that can hold A, B and the
\* nested group holds A and the nested group, in this order.
C25_Witness ==
  /\ inv[2].op = "removeChild" /\ inv[2].self = "g1" /\ inv[2].taskId = "B"
  /\ children["g1"] = <<"t1", "g2">>
  /\ Get(children["g1"], "B") = Undefined

\* ---- C26
\* Nothing outside the forest has been touched by run().
OnlyForestTasksRun ==
  \A t \in Tasks \ Range(Order) :
    obs[t].execute = 0 /\ task[t].state = "not_started"

\* No task stands at two places of the forest.
NoRepeats == Cardinality(Range(Order)) = Len(Order)

\* C26: addChild of a node whose id the group already has keeps the number of
\* children and the position of the id and puts the node there; run() then
\* executes the tasks of the forest in its order (when no task stands at two
\* places of it), the new node at that position, and not the node it replaced.
C26_AddChildReplacesInPlace ==
  /\ [][JustCalled("addChild") =>
          LET g == inv'[2].self
              node == inv'[2].t
              at == PositionsOf(children[g], NodeId(node))
          IN \A k \in at : /\ Len(children'[g]) = Len(children[g])
                           /\ children'[g] = [children[g] EXCEPT ![k] = node]]_vars
  /\ [](OnlyForestTasksRun /\ (NoRepeats => C7_DepthFirstOrder))

\* C26 witness: t3, with the id of t1, was added last and stands first in the
\* group before B; run() resolved having executed t3, then B, and never t1.
C26_Witness ==
  /\ inv[2].op = "addChild" /\ inv[2].t = "t3"
  /\ children["g1"] = <<"t3", "t2">> /\ taskGroups = <<"g1">>
  /\ RunResolved
  /\ obs["t3"].execute = 1 /\ obs["t2"].execute = 1 /\ obs["t1"].execute = 0
  /\ events[1] = [name |-> "taskStarted", arg |-> <<"t3">>]

\* ---- C27
\* C27: a new orchestrator has no groups; after addGroup(g) getTaskGroup(g.id)
\* is g; after removeGroup(id) getTaskGroup(id) is absent and the other root
\* groups are as they were; run() executes no task outside the root groups
\* it then has.
C27_AddRemoveGroup ==
  /\ taskGroups = <<>>
  /\ [][/\ JustCalled("addGroup") => Get(taskGroups', inv'[2].taskId) = inv'[2].t
        /\ JustCalled("removeGroup") =>
             LET id == inv'[2].taskId
                 at == PositionsOf(taskGroups, id)
             IN /\ Get(taskGroups', id) = Undefined
                /\ at = {} => taskGroups' = taskGroups
                /\ \A k \in at : taskGroups' = Without(taskGroups, k)
                /\ children' = children]_vars
  /\ []OnlyForestTasksRun

\* C27 witness: g2 holds a task and was removed last; run() resolved over the
\* remaining root group, whose task was executed, and g2's task was not.
C27_Witness ==
  /\ inv[2].op = "removeGroup" /\ inv[2].taskId = "g2"
  /\ children["g2"] = <<"t4">> /\ GetTaskGroup("g2") = Undefined
  /\ taskGroups = <<"g1">> /\ children["g1"] = <<"t1">>
  /\ RunResolved
  /\ obs["t1"].execute = 1
  /\ obs["t4"].execute = 0 /\ task["t4"].state = "not_started"

\* ---- C28
\* The task at position i of the traversal order returned the id v, and
\* executeTask has stored it.
ReturnedId(i, v) ==
  /\ obs[Order[i]].run = "resolved" /\ obs[Order[i]].value = v
  /\ v \in BranchIds
  /\ Times("taskComplete", <<Order[i]>>) = 1

\* No task at the positions i+1..j has the id v.
NoTarget(i, j, v) == \A k \in (i + 1)..j : task[Order[k]].id # v

\* C28: after a task returned the id v, every task visited before the first
\* task with id v in depth-first order, in whatever group, is skipped: its
\* execute is not called and no event is emitted for it.
C28_SkipsAcrossGroups ==
  \A i \in 1..Len(Order), v \in BranchIds :
    ReturnedId(i, v) =>
      \A j \in (i + 1)..Len(Order) :
        (NoTarget(i, j, v) /\ Visited(Order[j])) =>
          /\ task[Order[j]].state = "skipped"
          /\ obs[Order[j]].execute = 0
          /\ Times("taskStarted", <<Order[j]>>) = 0

\* C28 witness: A returned C; X, in A's root group, and B, in the next root
\* group, are skipped and C is being executed.
C28_Witness ==
  /\ Len(taskGroups) = 2
  /\ obs["t1"].value = "C"
  /\ task["t2"].state = "skipped" /\ task["t3"].state = "skipped"
  /\ obs["t4"].run = "running"

\* ---- C29
\* The task at position i was the target of a branch: a task before it
\* returned its id.
WasTarget(i) ==
  \E h \in 1..(i - 1) : ReturnedId(h, task[Order[i]].id)

\* C29: when executeTask resumes after the branch target's run, a result
\* that is nothing clears the pointer and a result that is an id replaces it;
\* with no pointer set a task is started, not skipped; after a target
\* returned the id v the tasks before the first task with id v are skipped;
\* the pointer is never more than one id.
C29_TargetClearsOrReplaces ==
  /\ [][\A p \in Procs :
          /\ ( /\ inv[p].pc = "executeTask.resume"
               /\ inv'[p].pc # "executeTask.resume"
               /\ task[inv[p].t].id = nextTaskId )
               => nextTaskId' = IF obs[inv[p].t].value \in BranchIds
                                THEN obs[inv[p].t].value ELSE Undefined
          /\ ( /\ inv[p].pc = "executeTask"
               /\ inv'[p].pc # "executeTask"
               /\ nextTaskId = Undefined )
               => /\ task'[inv[p].t].state # "skipped"
                  /\ Times("taskStarted", <<inv[p].t>>)' = 1]_vars
  /\ [](/\ nextTaskId \in {Undefined} \cup BranchIds
        /\ \A i \in 1..Len(Order), v \in BranchIds :
             (WasTarget(i) /\ ReturnedId(i, v)) =>
               \A j \in (i + 1)..Len(Order) :
                 (NoTarget(i, j, v) /\ Visited(Order[j])) =>
                   task[Order[j]].state = "skipped")

\* C29 witness: of the siblings A, B, X, C, A returned B, B was executed and
\* returned C, X was skipped, C was executed and returned nothing, and the
\* pointer is cleared.
C29_Witness ==
  /\ children["g1"] = <<"t1", "t3", "t2", "t4">>
  /\ obs["t1"].value = "B" /\ obs["t3"].value = "C"
  /\ task["t3"].state = "completed" /\ task["t2"].state = "skipped"
  /\ task["t4"].state = "completed" /\ obs["t4"].value = Undefined
  /\ nextTaskId = Undefined /\ RunResolved

\* ---- C30
\* C30: when Task.run has settled, every delay was followed by another
\* attempt: there are as many delays as failed attempts that were not the
\* last attempt, so attempts minus one on permanent failure.
C30_DelayOnlyBetweenAttempts ==
  \A t \in Tasks :
    Settled(t) =>
      obs[t].wait = IF obs[t].lastAttempt = "failed"
                    THEN obs[t].failures - 1 ELSE obs[t].failures

\* ---- C31
\* An attempt of t succeeds in this step.
Succeeds(t) ==
  /\ \E p \in Procs : inv[p].pc \in {"execute", "checkCondition"} /\ inv[p].t = t
  /\ task'[t].state = "completed"
  /\ obs'[t].lastAttempt = "succeeded"

\* C31: a task's time changes only in the step in which an attempt of it
\* succeeds; a failed attempt and the skip path leave it; so it is 0 until the
\* first successful attempt, and without a successful attempt in an operation
\* it is what it was before the operation.
C31_TimeOfLastSuccess ==
  /\ [][\A t \in Tasks :
          /\ task'[t].time # task[t].time => Succeeds(t)
          /\ ( /\ task'[t].state \in {"failed", "skipped"}
               /\ task'[t].state # task[t].state )
               => task'[t].time = task[t].time]_vars
  /\ [](\A t \in Tasks :
          /\ (inv[2].op = "none" /\ obs[t].lastAttempt # "succeeded")
               => task[t].time = 0
          /\ obs[t].lastAttempt # "succeeded"
               => task[t].time = obs[t].before.time)

\* C31 witness: a task completed in MaxElapsed ms by a first operation has
\* failed in a second one and still has that time.
C31_Witness ==
  \E t \in Tasks :
    /\ inv[2].op # "none"
    /\ obs[t].before = [state |-> "completed", time |-> MaxElapsed]
    /\ obs[t].failures > 0 /\ task[t].state = "failed"
    /\ task[t].time = MaxElapsed

\* ---- C32
\* C32: in the step that emits taskComplete with a task, the task is
\* completed and its last attempt did not fail.
C32_CompleteMeansCompleted ==
  [][Len(events') = Len(events) + 1 =>
       LET e == LastEmit(events')
       IN e.name = "taskComplete" =>
            /\ task'[e.arg[1]].state = "completed"
            /\ obs'[e.arg[1]].lastAttempt # "failed"]_vars

\* ---- C33
\* The ids of the tasks of the forest.
ForestIds == {task[t].id : t \in Range(Order)}

\* The task at position i returned v, executeTask has stored it, and no task
\* after position i has the id v.
Stray(i, v) ==
  /\ obs[Order[i]].run = "resolved" /\ obs[Order[i]].value = v
  /\ Truthy(v)
  /\ Times("taskComplete", <<Order[i]>>) = 1
  /\ \A j \in (i + 1)..Len(Order) : task[Order[j]].id # v

\* C33: after a task of run() returned an id no later task has, the pointer
\* keeps it, every task visited after it is skipped and not executed, and
\* run() does not reject; when run() has resolved every later task is
\* skipped and every group has emitted success.  A following run() or
\* runTask() skips, without executing it, a task whose id differs from the
\* pointer; when nothing has the pointer's id the call ends with every task
\* it visited skipped and the pointer as it was.
C33_StrayTargetSkipsTheRest ==
  /\ [](\A i \in 1..Len(Order), v \in StrayResults :
          (inv[2].op = "none" /\ Stray(i, v)) =>
            /\ nextTaskId = v
            /\ ~RunRejected
            /\ \A j \in (i + 1)..Len(Order) :
                 /\ obs[Order[j]].execute = 0
                 /\ Times("taskStarted", <<Order[j]>>) = 0
                 /\ (Visited(Order[j]) \/ RunResolved)
                      => task[Order[j]].state = "skipped"
            /\ RunResolved => \A g \in ForestGroups : Succeeded(g) = 1)
  /\ [][\A p \in Procs :
          ( /\ inv[2].op # "none"
            /\ inv[p].pc = "executeTask" /\ inv'[p].pc # "executeTask"
            /\ Truthy(nextTaskId) /\ task[inv[p].t].id # nextTaskId )
            => /\ task'[inv[p].t].state = "skipped"
               /\ UNCHANGED <<nextTaskId, events, obs>>]_vars
  /\ []( ( /\ inv[2].outcome = "resolved"
           /\ Truthy(nextTaskId) /\ nextTaskId \notin ForestIds
           /\ \A t \in Tasks : obs[t].execute = 0 )
         => /\ events \in Seq([name : {"success"}, arg : {CompletedMessage(g) : g \in Groups}])
            /\ inv[2].op = "run" => \A t \in Range(Order) : task[t].state = "skipped"
            /\ inv[2].op = "runTask" =>
                 \A i \in 1..Len(taskGroups) :
                   LET c == Get(children[taskGroups[i]], inv[2].taskId)
                   IN IsTask(c) => task[c].state = "skipped" )

\* C33 witness: of B, A and X in a nested group, A returned the id of the
\* group, X was skipped and run() resolved; the following run() has resolved
\* with the three tasks skipped, a success for each group and the pointer
\* still the group's id.
C33_Witness ==
  /\ children["g1"] = <<"t3", "t1", "g2">>
  /\ inv[2].op = "run" /\ inv[2].outcome = "resolved"
  /\ nextTaskId = "g2"
  /\ obs["t3"].before.state = "completed"
  /\ obs["t1"].before.state = "completed"
  /\ obs["t2"].before.state = "skipped"
  /\ \A t \in {"t1", "t2", "t3"} : task[t].state = "skipped"
  /\ Len(events) = 2

\* ---- C34
\* C34: the task runTask(id) hands to executeTask has the id; with a pending
\* target other than id it is marked skipped, nothing is emitted and execute
\* is not called; with no pending target, or with id pending, taskStarted is
\* emitted, the task is not marked skipped and its execute is called next.
C34_RunTaskSkipCheck ==
  [][\A p \in Procs :
       LET t == inv[p].t
           id == inv[p].taskId
       IN /\ (inv[p].op = "runTask" /\ inv[p].pc = "executeTask"
                /\ inv'[p].pc # "executeTask") =>
               /\ task[t].id = id
               /\ IF Truthy(nextTaskId) /\ nextTaskId # id
                  THEN /\ task'[t].state = "skipped"
                       /\ UNCHANGED <<events, obs, nextTaskId>>
                       /\ inv'[p].pc = "runTask"
                  ELSE /\ events' = Append(events, [name |-> "taskStarted",
                                                    arg |-> <<t>>])
                       /\ task'[t].state # "skipped"
                       /\ inv'[p].pc = "Task.run" /\ inv'[p].t = t
                       /\ obs'[t].execute = 0
          /\ (inv[p].op = "runTask" /\ inv[p].pc = "Task.run"
                /\ obs[t].execute = 0) =>
               /\ obs'[t].execute = 1
               /\ task'[t].state = "in_progress"]_vars

\* C34 witness: with the target C pending after an earlier call, runTask("A")
\* has resolved; A, which that call had completed, is skipped and its execute
\* was not called.
C34_Witness ==
  /\ inv[2].op = "runTask" /\ inv[2].taskId = "A" /\ inv[2].outcome = "resolved"
  /\ nextTaskId = "C"
  /\ obs["t1"].before.state = "completed"
  /\ task["t1"].state = "skipped"
  /\ obs["t1"].execute = 0 /\ events = <<>>

\* ---- C35
\* The states of a serialized node and of the nodes under it.
RECURSIVE StatesIn(_)
StatesIn(node) ==
  {node.state} \cup
    IF node.type = "task-group"
    THEN UNION {StatesIn(node.children[i][2]) : i \in 1..Len(node.children)}
    ELSE {}

\* The states getSerializedState reports, over all nodes.
SerializedStates ==
  UNION {StatesIn(GetSerializedState[i][2]) : i \in 1..Len(taskGroups)}

\* C35: in every step of a single run() that emits an event no task of the
\* forest is in_progress, before and after the step, and getSerializedState
\* called in it reports in_progress for no node; when the event is taskStarted the task
\* has not been set in_progress and its execute has not been called.
C35_NoInProgressAtEmission ==
  [][Len(events') = Len(events) + 1 =>
       LET e == LastEmit(events')
       IN /\ e.name \in {"taskStarted", "taskComplete", "success"}
          /\ \A t \in Range(Order) :
               task[t].state # "in_progress" /\ task'[t].state # "in_progress"
          /\ "in_progress" \notin SerializedStates
          /\ e.name = "taskStarted" =>
               /\ obs'[e.arg[1]].execute = 0
               /\ task'[e.arg[1]].state = "not_started"]_vars

\* C35 witness: taskStarted has just been emitted for a task after a nested
\* group; the tasks before it are completed and failed, none is in_progress.
C35_Witness ==
  /\ events # <<>> /\ LastEmit(events).name = "taskStarted"
  /\ inv[1].pc = "Task.run" /\ obs[inv[1].t].execute = 0
  /\ LastEmit(events).arg = <<inv[1].t>>
  /\ task[inv[1].t].state = "not_started"
  /\ \E s, u \in Range(Order) :
       task[s].state = "completed" /\ task[u].state = "failed"
  /\ SerializedStates = {"completed", "failed", "not_started"}

\* ---- C36
\* Invocation p is about to run executeTask on the first task of the forest.
FirstVisit(p) ==
  /\ inv[p].pc = "executeTask"
  /\ Len(inv[p].stack) = 1 /\ inv[p].stack[1].i = 2
  /\ Len(inv[p].roots) = Len(taskGroups) - 1

\* Invocation p is in an attempt of t.
Attempting(p, t) == inv[p].t = t /\ inv[p].pc \in {"execute", "checkCondition"}

\* C36: with two overlapping run() calls, an invocation that visits a task
\* while a target with another id is pending marks it skipped, calls no
\* execute and emits nothing, whichever invocation stored the target and
\* whatever the other invocation is doing with the task; on the second
\* invocation's first visit the target is one a task of the first invocation
\* returned.  A task is in_progress only while an invocation is in an attempt
\* of it, so at most two are, and two can be.
C36_OverlappingRuns ==
  /\ [][\A p \in Procs :
          ( /\ inv[p].pc = "executeTask" /\ inv'[p].pc # "executeTask"
            /\ Truthy(nextTaskId) /\ task[inv[p].t].id # nextTaskId )
            => /\ task'[inv[p].t].state = "skipped"
               /\ UNCHANGED <<nextTaskId, events, obs>>
               /\ FirstVisit(2) /\ p = 2 =>
                    \E u \in Range(Order) :
                      obs[u].execute > 0 /\ obs[u].value = nextTaskId]_vars
  /\ [](/\ \A t \in Tasks :
             task[t].state = "in_progress" => \E p \in Procs : Attempting(p, t)
        /\ Cardinality(InProgress) <= Cardinality(Procs))

\* C36 witness: A was executed once, by the first invocation, and returned C;
\* the second invocation, called while the first was in C, marked A skipped
\* and started C as well; the first went on to B, the second is in its second
\* attempt of C: B and C are in_progress.
C36_Witness ==
  /\ obs["t1"].execute = 1 /\ obs["t1"].value = "C"
  /\ task["t1"].state = "skipped"
  /\ events = << [name |-> "taskStarted", arg |-> <<"t1">>],
                 [name |-> "taskComplete", arg |-> <<"t1">>],
                 [name |-> "taskStarted", arg |-> <<"t4">>],
                 [name |-> "taskStarted", arg |-> <<"t4">>],
                 [name |-> "taskComplete", arg |-> <<"t4">>],
                 [name |-> "taskStarted", arg |-> <<"t3">>] >>
  /\ Attempting(1, "t3") /\ Attempting(2, "t4")
  /\ InProgress = {"t3", "t4"}

\* ---- C37
\* C37: a call of getSerializedState changes no task's state or time, no
\* group's children, not the root groups and not the branch pointer, emits
\* nothing and calls no listener; a second call right after the first
\* returns what the first returned, and that is the serialization of the
\* state the run is in.
C37_PureRead ==
  [][\A p \in Procs :
       (inv'[p].op = "getSerializedState" /\ inv'[p].pc # inv[p].pc) =>
         /\ \A t \in Tasks : /\ task'[t].state = task[t].state
                              /\ task'[t].time = task[t].time
         /\ children' = children
         /\ taskGroups' = taskGroups
         /\ nextTaskId' = nextTaskId
         /\ events' = events /\ calls' = calls
         /\ inv'[p].pc = "done" =>
              /\ inv'[p].result = inv[p].value
              /\ inv'[p].result = GetSerializedState]_vars

\* C37 witness: two calls in the middle of a run(), with a task in_progress
\* in the nested group, a skipped task and a target pending, returned the
\* same state, in which the root group is in_progress.
C37_Witness ==
  /\ inv[2].op = "getSerializedState" /\ inv[2].pc = "done"
  /\ inv[2].value = GetSerializedState
  /\ inv[2].value[1][2].state = "in_progress"
  /\ inv[1].pc = "execute" /\ inv[1].t = "t3"
  /\ task["t2"].state = "skipped"
  /\ nextTaskId = "B"

\* ---- C38
\* Every child of g is a completed task or a group without children.
CompletedOrEmpty(g) ==
  \A c \in Range(children[g]) :
    IF IsTask(c) THEN task[c].state = "completed" ELSE children[c] = <<>>

\* C38: a group without children serializes as completed with time 0 and no
\* children, before, during and after a run; a group whose other children
\* are completed tasks reports completed.
C38_EmptyGroupCompleted ==
  \A g \in ForestGroups :
    /\ children[g] = <<>> =>
         SerializeTaskGroup(g) = [type |-> "task-group", state |-> "completed",
                                  time |-> 0, children |-> <<>>]
    /\ CompletedOrEmpty(g) => SerializeTaskGroup(g).state = "completed"

\* C38 witness: the group of an empty nested group and a task that run() has
\* completed reports completed, and so does the empty root group.
C38_Witness ==
  \E g, h \in ForestGroups :
    /\ h \in Range(children[g]) /\ children[h] = <<>>
    /\ \E t \in Range(children[g]) : IsTask(t) /\ task[t].state = "completed"
    /\ SerializeTaskGroup(g).state = "completed"
    /\ \E i \in 1..Len(GetSerializedState) :
         /\ GetSerializedState[i][2].children = <<>>
         /\ GetSerializedState[i][2].state = "completed"

\* ---- C39
\* C39: once run() is called it eventually resolves or rejects, and no
\* task's execute is ever called more than retries + 1 times.
C39_RunSettles ==
  /\ (inv[1].op = "run") ~> (RunResolved \/ RunRejected)
  /\ [](\A t \in Tasks : obs[t].execute <= task[t].retries + 1)

\* C39 witness: run() resolved over a task, a nested group with a task and
\* another task, one of them having succeeded in its last allowed attempt.
C39_Witness ==
  /\ RunResolved
  /\ \E g \in ForestGroups : \E h \in GroupsUnder(children, g) \ {g} : Under(h) # {}
  /\ \E t \in Range(Order) :
       /\ task[t].retries = MaxRetries
       /\ obs[t].execute = MaxRetries /\ obs[t].failures = MaxRetries - 1
       /\ task[t].state = "completed"

====
